---------------------------- MODULE Spec2Model ----------------------------
(***************************************************************************)
(* A model of the LinkedIn post generator: the provider client (LLMClient),*)
(* the context gatherer (web_search), the content filter                   *)
(* (moderate_content, apply_content_moderation), the two forms of the      *)
(* pipeline orchestrator (create_linkedin_posts and                        *)
(* create_linkedin_posts_stream) and the HTTP handlers of main.py.         *)
(*                                                                         *)
(* Texts are sequences of characters.  A character is a one-character      *)
(* string, or the name of a segment: a long literal stretch of text of the *)
(* source (a canned mock response) that has no whitespace at its ends and  *)
(* on which every test the program makes (a keyword, a denylisted word, a  *)
(* run of punctuation, a brace) fails; a segment has a length and a number *)
(* of uppercase characters (SegLen, SegUpper).                             *)
(* The bullet character (U+2022) is written "U+2022".                      *)
(***************************************************************************)
EXTENDS Integers, Sequences, FiniteSets, TLC

-----------------------------------------------------------------------------
(* Bounds of the model *)

\* calls made on a client tested on its own
MaxCalls == 3
\* the largest latency of one provider call, in ticks of 0.0001 s
MaxLatency == 2
\* the largest token count one provider response reports
MaxTokens == 1
\* the posts of a list given to the content filter on its own
MaxPosts == 2
\* the writes made to the feedback log
MaxFeedback == 3

-----------------------------------------------------------------------------
(* Texts *)

\* Python's None, for each type of value it stands in for: the name of an
\* exception, a record, a text
None == "None"
Nil == [nil |-> TRUE]
NoText == <<"None">>

LowerTable ==
  [A |-> "a", B |-> "b", C |-> "c", D |-> "d", E |-> "e", F |-> "f", G |-> "g",
   H |-> "h", I |-> "i", J |-> "j", K |-> "k", L |-> "l", M |-> "m", N |-> "n",
   O |-> "o", P |-> "p", Q |-> "q", R |-> "r", S |-> "s", T |-> "t", U |-> "u",
   V |-> "v", W |-> "w", X |-> "x", Y |-> "y", Z |-> "z"]

\* c.isupper()
IsUpper(c) == c \in DOMAIN LowerTable

\* c.lower()
LowerChar(c) == IF IsUpper(c) THEN LowerTable[c] ELSE c

\* text.lower()
Lower(s) == [i \in 1..Len(s) |-> LowerChar(s[i])]

\* the characters str.strip() removes
IsSpace(c) == c \in {" ", "\n", "\t"}

\* c.isdigit()
IsDigit(c) == c \in {"0", "1", "2", "3", "4", "5", "6", "7", "8", "9"}

RECURSIVE LStrip(_)
LStrip(s) == IF s # <<>> /\ IsSpace(Head(s)) THEN LStrip(Tail(s)) ELSE s

RECURSIVE RStrip(_)
RStrip(s) ==
  IF s # <<>> /\ IsSpace(s[Len(s)]) THEN RStrip(SubSeq(s, 1, Len(s) - 1)) ELSE s

\* text.strip()
Strip(s) == RStrip(LStrip(s))

\* text.replace(' ', '')
RemoveSpaces(s) == SelectSeq(s, LAMBDA c : c # " ")

\* w in text
Contains(s, w) ==
  \E i \in 1..(Len(s) - Len(w) + 1) : SubSeq(s, i, i + Len(w) - 1) = w

\* text.find(c): the first position of c, 0 when there is none
Find(s, c) ==
  IF \E i \in 1..Len(s) : s[i] = c
  THEN CHOOSE i \in 1..Len(s) : s[i] = c /\ \A j \in 1..(i - 1) : s[j] # c
  ELSE 0

\* text.rfind(c): the last position of c, 0 when there is none
RFind(s, c) ==
  IF \E i \in 1..Len(s) : s[i] = c
  THEN CHOOSE i \in 1..Len(s) : s[i] = c /\ \A j \in (i + 1)..Len(s) : s[j] # c
  ELSE 0

\* text.split('\n')
RECURSIVE SplitLines(_)
SplitLines(s) ==
  LET p == Find(s, "\n")
  IN  IF p = 0 THEN <<s>>
      ELSE <<SubSeq(s, 1, p - 1)>> \o SplitLines(SubSeq(s, p + 1, Len(s)))

\* line.split('.', 1)[-1]
AfterFirstDot(line) ==
  LET p == Find(line, ".")
  IN  IF p = 0 THEN line ELSE SubSeq(line, p + 1, Len(line))

\* "\n".join(parts)
RECURSIVE JoinLines(_)
JoinLines(parts) ==
  IF parts = <<>> THEN <<>>
  ELSE IF Len(parts) = 1 THEN parts[1]
  ELSE parts[1] \o <<"\n">> \o JoinLines(Tail(parts))

\* the segments: long literal texts of the source, with len() and the number of
\* uppercase characters of each
SegLen ==
  [MockAngle1 |-> 43, MockAngle2 |-> 38, MockAngle3 |-> 41,
   MockPostText |-> 626, MockCtaText |-> 108, MockDefaultText |-> 49,
   TechInnovation |-> 14, CareerGrowth |-> 12, ContinuousLearning |-> 18,
   ProfessionalDevelopment |-> 23, Innovation |-> 10,
   PersonalExperienceWith |-> 24, IndustryTrendsRelatedTo |-> 26,
   BestPracticesFor |-> 18, FutureOf |-> 9, CommonMistakesIn |-> 18,
   LinkedIn |-> 8, Professional |-> 12, Growth |-> 6, Insights |-> 8,
   FallbackCtaText |-> 46, ContentModerated |-> 16,
   ModerationCta |-> 40, NoTitle |-> 8, NoDescription |-> 14]

SegUpper ==
  [MockAngle1 |-> 1, MockAngle2 |-> 1, MockAngle3 |-> 1,
   MockPostText |-> 17, MockCtaText |-> 2, MockDefaultText |-> 4,
   TechInnovation |-> 2, CareerGrowth |-> 2, ContinuousLearning |-> 2,
   ProfessionalDevelopment |-> 2, Innovation |-> 1,
   PersonalExperienceWith |-> 1, IndustryTrendsRelatedTo |-> 1,
   BestPracticesFor |-> 1, FutureOf |-> 1, CommonMistakesIn |-> 1,
   LinkedIn |-> 2, Professional |-> 1, Growth |-> 1, Insights |-> 1,
   FallbackCtaText |-> 2, ContentModerated |-> 2,
   ModerationCta |-> 1, NoTitle |-> 1, NoDescription |-> 1]

IsSegment(c) == c \in DOMAIN SegLen

\* the sum of table[c] over the segments c of text
RECURSIVE SegSum(_, _)
SegSum(table, segs) ==
  IF segs = <<>> THEN 0 ELSE table[Head(segs)] + SegSum(table, Tail(segs))

\* len(text)
TextLen(s) ==
  Cardinality({i \in 1..Len(s) : ~IsSegment(s[i])})
    + SegSum(SegLen, SelectSeq(s, IsSegment))

\* sum(1 for c in text if c.isupper())
CapsCount(s) ==
  Cardinality({i \in 1..Len(s) : IsUpper(s[i])})
    + SegSum(SegUpper, SelectSeq(s, IsSegment))

-----------------------------------------------------------------------------
(* JSON values, as json.loads returns them *)

JStr(text) == [t |-> "str", v |-> text]
JNull == [t |-> "null", v |-> <<>>]
JNum == [t |-> "num", v |-> <<>>]
JList(items) == [t |-> "list", v |-> items]
\* a key the object does not have
JMissing == [t |-> "missing", v |-> <<>>]

\* The JSON objects of the model.  A text holds an object as "{", the object's
\* name, "}"; json.loads of anything else between braces fails.
JsonBody ==
  [MockJson |->
     [hashtags |-> JList(<<JStr(<<"#", "TechInnovation">>),
                           JStr(<<"#", "CareerGrowth">>),
                           JStr(<<"#", "ContinuousLearning">>),
                           JStr(<<"#", "ProfessionalDevelopment">>),
                           JStr(<<"#", "Innovation">>)>>),
      cta |-> JStr(<<"MockCtaText">>)],
   JsonGood |->
     [hashtags |-> JList(<<JStr(<<"#", "a">>), JStr(<<"a", " ", "i">>)>>),
      cta |-> JStr(<<" ", "g", "o", " ">>)],
   JsonEmpty |-> [hashtags |-> JMissing, cta |-> JMissing],
   JsonNullCta |-> [hashtags |-> JList(<<JStr(<<"#", "a">>)>>), cta |-> JNull],
   JsonNumTag |-> [hashtags |-> JList(<<JNum>>), cta |-> JStr(<<"g", "o">>)],
   JsonStrTags |-> [hashtags |-> JStr(<<"#", "a">>), cta |-> JStr(<<"g", "o">>)]]

-----------------------------------------------------------------------------
(* The provider client: LLMClient *)

GROQ == <<"g", "r", "o", "q">>
GEMINI == <<"g", "e", "m", "i", "n", "i">>

\* the keywords _mock_response looks for in prompt.lower()
Keyword ==
  [brainstorm |-> <<"b", "r", "a", "i", "n", "s", "t", "o", "r", "m">>,
   angles |-> <<"a", "n", "g", "l", "e", "s">>,
   linkedin_post |-> <<"l", "i", "n", "k", "e", "d", "i", "n", " ", "p", "o", "s", "t">>,
   write |-> <<"w", "r", "i", "t", "e">>,
   hashtags |-> <<"h", "a", "s", "h", "t", "a", "g", "s">>,
   cta |-> <<"c", "t", "a">>]

\* A prompt is the kind of its template and the texts the template embeds.
\* The keywords the literal text of each template holds, lowercased:
TemplateKeywords(kind) ==
  CASE kind = "brainstorm" -> {"brainstorm", "angles", "linkedin_post"}
    [] kind = "draft" -> {"write", "linkedin_post"}
    [] kind = "refine" -> {"linkedin_post", "hashtags", "cta"}
    [] OTHER -> {}

Prompt(kind, parts) == [kind |-> kind, parts |-> parts]

\* kw in prompt.lower()
PromptHas(prompt, kw) ==
  \/ kw \in TemplateKeywords(prompt.kind)
  \/ \E i \in 1..Len(prompt.parts) : Contains(Lower(prompt.parts[i]), Keyword[kw])

MockAnglesResponse ==
  <<"1", ".", " ", "MockAngle1", "\n",
    "2", ".", " ", "MockAngle2", "\n",
    "3", ".", " ", "MockAngle3">>
MockPostResponse == <<"MockPostText">>
MockRefineResponse == <<"{", "MockJson", "}">>
MockDefaultResponse == <<"MockDefaultText">>

MockResponse(prompt) ==
  IF PromptHas(prompt, "brainstorm") /\ PromptHas(prompt, "angles")
  THEN MockAnglesResponse
  ELSE IF PromptHas(prompt, "linkedin_post") /\ PromptHas(prompt, "write")
  THEN MockPostResponse
  ELSE IF PromptHas(prompt, "hashtags") /\ PromptHas(prompt, "cta")
  THEN MockRefineResponse
  ELSE MockDefaultResponse

\* not api_key or api_key in ["your_api_key_here", "YOUR_API_KEY_HERE"]
UseMockPlaceholderMissed(api_key) == api_key = ""
UseMock(api_key) ==
  api_key = "" \/ api_key \in {"your_api_key_here", "YOUR_API_KEY_HERE"}

\* the provider is looked at by the first call only, not by __init__
ProviderOkAny(provider) == TRUE
\* LLMClient.__init__ raises ValueError for any other provider
ProviderOk(provider) == Lower(provider) \in {GEMINI, GROQ}

\* the client LLMClient.__init__ leaves, for a provider that is accepted
NewClient(provider, api_key) ==
  [provider |-> Lower(provider),
   api_key |-> api_key,
   total_tokens |-> 0,
   total_latency |-> 0,
   call_count |-> 0,
   use_mock |-> UseMock(api_key),
   base_url |-> IF Lower(provider) = GEMINI THEN "generativelanguage.googleapis.com"
                ELSE "api.groq.com"]

\* What the network does with one request:
\*   ok         status 200 and a body with the text; usage is the token count the
\*              body reports, NoUsage when it has no "usage"
\*   malformed  status 200, and reading the text from the body fails
\*   http_error any other status
\*   client_error  aiohttp.ClientError before a response arrives
\*   exception  any other exception before a response arrives
\* latency is the time from the start of the call to that point.
Usage(n) == [reported |-> TRUE, tokens |-> n]
NoUsage == [reported |-> FALSE, tokens |-> 0]
OkOutcome(text, latency, usage) ==
  [kind |-> "ok", text |-> text, latency |-> latency, usage |-> usage]
FailOutcome(kind, latency) ==
  [kind |-> kind, text |-> <<>>, latency |-> latency, usage |-> NoUsage]
FailureKinds == {"malformed", "http_error", "client_error", "exception"}

\* The result of a call: the text returned, or the exception raised.  mock tells
\* that the text is _mock_response's.
Returned(text, mock) == [raised |-> None, text |-> text, mock |-> mock]
Raised(exc) == [raised |-> exc, text |-> <<>>, mock |-> FALSE]

\* the increment of call_count is lost
TrackLatencyOnly(c, latency) == [c EXCEPT !.total_latency = @ + latency]
\* self.total_latency += latency; self.call_count += 1
Track(c, latency) ==
  [c EXCEPT !.total_latency = @ + latency, !.call_count = @ + 1]

\* _call_groq: the client after the call, and the call's result.  The handlers
\* "except aiohttp.ClientError" and "except Exception" belong to the try that
\* holds the whole call, so an exception raised after the response arrived
\* (lines 183-197, the LLMProviderError of line 197 included) is caught by
\* "except Exception" and tracked again.
CallGroqFallsBack(c, prompt, o) ==
  IF o.kind = "ok"
  THEN [client |-> [Track(c, o.latency) EXCEPT
                      !.total_tokens = IF o.usage.reported THEN @ + o.usage.tokens ELSE @],
        result |-> Returned(o.text, FALSE)]
  ELSE [client |-> Track(c, o.latency), result |-> Returned(MockResponse(prompt), TRUE)]
CallGroq(c, prompt, o) ==
  CASE o.kind = "ok" ->
         [client |-> [Track(c, o.latency) EXCEPT
                        !.total_tokens = IF o.usage.reported THEN @ + o.usage.tokens ELSE @],
          result |-> Returned(o.text, FALSE)]
    [] o.kind \in {"malformed", "http_error"} ->
         [client |-> Track(Track(c, o.latency), o.latency),
          result |-> Raised("LLMProviderError")]
    [] o.kind \in {"client_error", "exception"} ->
         [client |-> Track(c, o.latency), result |-> Raised("LLMProviderError")]

\* _call_gemini: tracks nothing, and answers every failure with the mock response
CallGemini(c, prompt, o) ==
  IF o.kind = "ok"
  THEN [client |-> c, result |-> Returned(o.text, FALSE)]
  ELSE [client |-> c, result |-> Returned(MockResponse(prompt), TRUE)]

\* generate_text of a client in mock mode: no request is made
MockCall(c, prompt) == [client |-> c, result |-> Returned(MockResponse(prompt), TRUE)]

\* generate_text of a client in live mode, once the network has answered with o
LiveCall(c, prompt, o) ==
  IF c.provider = GEMINI THEN CallGemini(c, prompt, o) ELSE CallGroq(c, prompt, o)

\* round(ticks / den, 3), ticks being a time in ticks of 0.0001 s: the nearest
\* thousandth of a second, given in thousandths.  Python rounds the halves that
\* arise here (0.0005, 0.0015, ...: floats just above the half) upwards.
Round3(ticks, den) == (2 * ticks + 10 * den) \div (20 * den)

GetMetricsFloor(c) ==
  [total_tokens |-> c.total_tokens,
   total_latency |-> c.total_latency \div 10,
   call_count |-> c.call_count,
   avg_latency_per_call |->
     c.total_latency \div (10 * (IF c.call_count > 1 THEN c.call_count ELSE 1))]

\* get_metrics(): the two times are rounded to thousandths of a second
GetMetrics(c) ==
  [total_tokens |-> c.total_tokens,
   total_latency |-> Round3(c.total_latency, 1),
   call_count |-> c.call_count,
   avg_latency_per_call |->
     Round3(c.total_latency, IF c.call_count > 1 THEN c.call_count ELSE 1)]

-----------------------------------------------------------------------------
(* The context gatherer: web_search *)

\* str(i), for the numbers of a digest
DigitChar == <<"1", "2", "3", "4", "5", "6", "7", "8", "9">>

\* f"{i}. {title}: {snippet}", with result.get's defaults
DigestLine(i, result) ==
  <<DigitChar[i], ".", " ">>
    \o (IF result.title = NoText THEN <<"NoTitle">> ELSE result.title)
    \o <<":", " ">>
    \o (IF result.body = NoText THEN <<"NoDescription">> ELSE result.body)

\* What a search does: the library is missing (import_error), the search raises
\* (exception), or it returns the list results, which may be empty.
SearchOutcome(kind, results) == [kind |-> kind, results |-> results]

\* web_search: the digest; every failure is caught and gives the empty text
WebSearch(o) ==
  IF o.kind \in {"import_error", "exception"} \/ o.results = <<>>
  THEN <<>>
  ELSE JoinLines([i \in 1..Len(o.results) |-> DigestLine(i, o.results[i])])

-----------------------------------------------------------------------------
(* The content filter: moderate_content, apply_content_moderation *)

banned_words ==
  << <<"s", "p", "a", "m">>,
     <<"s", "c", "a", "m">>,
     <<"h", "a", "t", "e">>,
     <<"v", "i", "o", "l", "e", "n", "c", "e">>,
     <<"d", "i", "s", "c", "r", "i", "m", "i", "n", "a", "t">>,
     <<"h", "a", "r", "a", "s", "s">>,
     <<"i", "l", "l", "e", "g", "a", "l">>,
     <<"f", "r", "a", "u", "d">>,
     <<"m", "i", "s", "l", "e", "a", "d", "i", "n", "g">>,
     <<"f", "a", "k", "e", " ", "n", "e", "w", "s">>,
     <<"m", "i", "s", "i", "n", "f", "o", "r", "m", "a", "t", "i", "o", "n">> >>

\* re.search(r'[!]{3,}|[?]{3,}|[.]{3,}', text)
PunctRun(text) ==
  \E i \in 1..(Len(text) - 2) :
    /\ text[i] \in {"!", "?", "."}
    /\ text[i + 1] = text[i]
    /\ text[i + 2] = text[i]

\* caps_count / len(text) > 0.7, for len(text) > 50
CapsExcess(text) ==
  TextLen(text) > 50 /\ 10 * CapsCount(text) > 7 * TextLen(text)

ModerateContentPunctFirst(text) ==
  LET low == Lower(text)
      hits == {i \in 1..Len(banned_words) : Contains(low, banned_words[i])}
  IN  IF PunctRun(text)
      THEN [clean |-> FALSE, rule |-> "punctuation", word |-> <<>>]
      ELSE IF hits # {}
      THEN [clean |-> FALSE, rule |-> "banned",
            word |-> banned_words[CHOOSE i \in hits : \A j \in hits : i <= j]]
      ELSE IF CapsExcess(text)
      THEN [clean |-> FALSE, rule |-> "caps", word |-> <<>>]
      ELSE [clean |-> TRUE, rule |-> "", word |-> <<>>]

\* moderate_content: (is_clean, reason); the reason of a denylist hit is its word.
\* A segment counts as characters that match no rule: the texts the segments
\* stand for are clean, and none is filtered next to other characters.
ModerateContent(text) ==
  LET low == Lower(text)
      hits == {i \in 1..Len(banned_words) : Contains(low, banned_words[i])}
  IN  IF hits # {}
      THEN [clean |-> FALSE, rule |-> "banned",
            word |-> banned_words[CHOOSE i \in hits : \A j \in hits : i <= j]]
      ELSE IF CapsExcess(text)
      THEN [clean |-> FALSE, rule |-> "caps", word |-> <<>>]
      ELSE IF PunctRun(text)
      THEN [clean |-> FALSE, rule |-> "punctuation", word |-> <<>>]
      ELSE [clean |-> TRUE, rule |-> "", word |-> <<>>]

\* the text apply_content_moderation puts in the place of a text that is not clean
ModerationNotice ==
  <<"[", "T", "h", "i", "s", " ", "p", "o", "s", "t", " ", "w", "a", "s",
     " ", "m", "o", "d", "e", "r", "a", "t", "e", "d", " ", "f", "o", "r",
     " ", "c", "o", "n", "t", "a", "i", "n", "i", "n", "g", " ", "p", "o",
     "t", "e", "n", "t", "i", "a", "l", "l", "y", " ", "i", "n", "a", "p",
     "p", "r", "o", "p", "r", "i", "a", "t", "e", " ", "c", "o", "n", "t",
     "e", "n", "t", ".", " ", "P", "l", "e", "a", "s", "e", " ", "t", "r",
     "y", " ", "g", "e", "n", "e", "r", "a", "t", "i", "n", "g", " ", "a",
     "g", "a", "i", "n", " ", "w", "i", "t", "h", " ", "a", " ", "d", "i",
     "f", "f", "e", "r", "e", "n", "t", " ", "t", "o", "p", "i", "c", ".",
     "]">>

ModeratedPostMarked(post) ==
  [post EXCEPT !.post_text = <<"[">> \o post.post_text \o <<"]">>,
               !.hashtags = << <<"#", "ContentModerated">> >>,
               !.cta = <<"ModerationCta">>]

\* the copy apply_content_moderation puts in the place of a post that is not clean
ModeratedPost(post) ==
  [post EXCEPT !.post_text = ModerationNotice,
               !.hashtags = << <<"#", "ContentModerated">> >>,
               !.cta = <<"ModerationCta">>]

ApplyContentModerationDropping(posts) ==
  SelectSeq(posts, LAMBDA post : ModerateContent(post.post_text).clean)

\* the hashtags and the cta are judged as the text is
ApplyContentModerationOnAllFields(posts) ==
  [i \in 1..Len(posts) |->
     IF /\ ModerateContent(posts[i].post_text).clean
        /\ ModerateContent(posts[i].cta).clean
        /\ \A j \in 1..Len(posts[i].hashtags) :
             ModerateContent(posts[i].hashtags[j]).clean
     THEN posts[i]
     ELSE ModeratedPost(posts[i])]

ApplyContentModeration(posts) ==
  [i \in 1..Len(posts) |->
     IF ModerateContent(posts[i].post_text).clean THEN posts[i]
     ELSE ModeratedPost(posts[i])]

-----------------------------------------------------------------------------
(* The stages of the pipeline: the parsing both forms share *)

\* seq[:n]
Prefix(seq, n) ==
  IF n >= 0 THEN SubSeq(seq, 1, IF n < Len(seq) THEN n ELSE Len(seq))
  ELSE SubSeq(seq, 1, IF Len(seq) + n > 0 THEN Len(seq) + n ELSE 0)

\* a line of the brainstorm response that counts as listed
IsListed(line) ==
  line # <<>> /\ (IsDigit(line[1]) \/ line[1] = "-" \/ line[1] = "U+2022")

\* the angles parsed from the lines of the response
RECURSIVE AnglesOfLines(_)
AnglesOfLines(lines) ==
  IF lines = <<>> THEN <<>>
  ELSE LET line == Strip(Head(lines))
           angle == Strip(AfterFirstDot(line))
       IN  (IF IsListed(line) /\ angle # <<>> THEN <<angle>> ELSE <<>>)
             \o AnglesOfLines(Tail(lines))

\* the fallback angles, derived from the topic
FallbackAngles(topic, post_count) ==
  << <<"PersonalExperienceWith", " ">> \o topic,
     <<"IndustryTrendsRelatedTo", " ">> \o topic,
     <<"BestPracticesFor", " ">> \o topic >>
  \o (IF post_count > 3
      THEN Prefix(<< <<"FutureOf", " ">> \o topic,
                     <<"CommonMistakesIn", " ">> \o topic >>, post_count - 3)
      ELSE <<>>)

\* the angles of a run: parsed, or the fallback, cut to post_count
AnglesUncut(angles_response, topic, post_count) ==
  LET parsed == AnglesOfLines(SplitLines(angles_response))
  IN  IF parsed = <<>> THEN FallbackAngles(topic, post_count) ELSE parsed
Angles(angles_response, topic, post_count) ==
  LET parsed == AnglesOfLines(SplitLines(angles_response))
  IN  Prefix(IF parsed = <<>> THEN FallbackAngles(topic, post_count) ELSE parsed,
             post_count)

\* the hashtags and the cta used when the refinement cannot be parsed
FallbackHashtags(topic) ==
  JList(<<JStr(<<"#">> \o RemoveSpaces(topic)), JStr(<<"#", "LinkedIn">>),
          JStr(<<"#", "Professional">>), JStr(<<"#", "Growth">>),
          JStr(<<"#", "Insights">>)>>)
FallbackCta == JStr(<<"FallbackCtaText">>)

\* the try block of the assembly loop: the values of hashtags and cta after it
RefinementData(refinement, topic) ==
  LET json_start == Find(refinement, "{")
      json_end == RFind(refinement, "}")
      json_str == SubSeq(refinement, json_start, json_end)
      parses == /\ json_start # 0 /\ json_end # 0
                /\ Len(json_str) = 3
                /\ json_str[2] \in DOMAIN JsonBody
      data == JsonBody[json_str[2]]
  IN  IF parses
      THEN [hashtags |-> IF data.hashtags.t = "missing" THEN JList(<<>>)
                         ELSE data.hashtags,
            cta |-> IF data.cta.t = "missing" THEN JStr(<<>>) ELSE data.cta]
      ELSE [hashtags |-> FallbackHashtags(topic), cta |-> FallbackCta]

\* tag if tag.startswith('#') else f"#{tag.replace(' ', '')}"
FormatTagUnchanged(tag) == tag
FormatTag(tag) ==
  IF tag # <<>> /\ tag[1] = "#" THEN tag ELSE <<"#">> \o RemoveSpaces(tag)

\* One turn of the assembly loop: the final post, or the exception raised.
\* tag.startswith and cta.strip raise AttributeError on a value that is no string.
FinalPost(post, refinement, topic) ==
  LET d == RefinementData(refinement, topic)
      tags == IF d.hashtags.t = "list" THEN d.hashtags.v
              ELSE FallbackHashtags(topic).v
  IN  IF (\E i \in 1..Len(tags) : tags[i].t # "str") \/ d.cta.t # "str"
      THEN [raised |-> "AttributeError", post |-> Nil]
      ELSE [raised |-> None,
            post |-> [post_text |-> Strip(post),
                      hashtags |-> [i \in 1..Len(tags) |-> FormatTag(tags[i].v)],
                      cta |-> Strip(d.cta.v)]]

-----------------------------------------------------------------------------
(* State *)

\* the requests the server handles: one, or two at the same time
Reqs == {"r1", "r2"}

VARIABLES
  config,      \* main.config: the credential resolved at startup
  req,         \* req[r]: the body of request r, Nil before it arrives
  pc,          \* pc[r]: where the handler of request r stands
  run,         \* run[r]: the arguments and the locals of the orchestrator
  client,      \* client[r]: llm_client of the run, Nil before it is constructed
  tasks,       \* tasks[r]: the provider calls of the current stage
  events,      \* events[r]: what create_linkedin_posts_stream has yielded
  sse,         \* sse[r]: what stream_posts has sent to the caller
  resp,        \* resp[r]: the answer of generate_posts, Nil before it is given
  raised,      \* raised[r]: the exception the handler of r is unwinding with
  net,         \* net[r]: the requests made to the provider and to the search
  answered,    \* the requests the provider has answered, in order: whose they were
  cl,          \* a client used on its own (as the unit tests use it)
  clLast,      \* the last generate_text call on cl: prompt, outcome, result
  clDone,      \* the generate_text calls on cl that have completed
  clNet,       \* the requests cl has made to its provider
  clMetrics,   \* the last snapshot get_metrics gave of cl
  clAsk,       \* the arguments LLMClient was constructed with
  mIn,         \* the posts given to apply_content_moderation
  mVerdict,    \* the last call of moderate_content: text and result
  mOut,        \* apply_content_moderation(mIn), once it has been called
  mAgain,      \* apply_content_moderation on the posts of mOut
  health,      \* the last answer of GET /health
  feedback_log, \* the lines of feedback.json
  fbLast       \* the last POST /feedback: entry, outcome of the append, answer

vars == <<config, req, pc, run, client, tasks, events, sse, resp, raised, net,
          answered, cl, clLast, clDone, clNet, clMetrics, clAsk,
          mIn, mVerdict, mOut, mAgain, health, feedback_log, fbLast>>
serverVars ==
  <<config, req, pc, run, client, tasks, events, sse, resp, raised, net,
    answered>>
clientVars == <<cl, clLast, clDone, clNet, clMetrics, clAsk>>
filterVars == <<mIn, mVerdict, mOut, mAgain>>
adminVars == <<health, feedback_log, fbLast>>
\* what the handlers of the two generation endpoints leave alone
offlineVars == <<clientVars, filterVars, adminVars>>

\* the credentials: none, the two placeholders, a usable one
ApiKeys == {"", "your_api_key_here", "YOUR_API_KEY_HERE", "gsk_live"}

\* nothing has arrived yet; pc[r] is "off" for a request that never arrives
NoRequest ==
  /\ req = [r \in Reqs |-> Nil]
  /\ run = [r \in Reqs |-> Nil]
  /\ client = [r \in Reqs |-> Nil]
  /\ tasks = [r \in Reqs |-> <<>>]
  /\ events = [r \in Reqs |-> <<>>]
  /\ sse = [r \in Reqs |-> <<>>]
  /\ resp = [r \in Reqs |-> Nil]
  /\ raised = [r \in Reqs |-> None]
  /\ net = [r \in Reqs |-> [provider |-> 0, search |-> 0]]
  /\ answered = <<>>

\* one request is to arrive
ServerIdle ==
  /\ NoRequest
  /\ pc = [r \in Reqs |-> IF r = "r1" THEN "idle" ELSE "off"]

NoLoneClient ==
  /\ cl = Nil
  /\ clLast = Nil
  /\ clDone = 0
  /\ clNet = 0
  /\ clMetrics = Nil
  /\ clAsk = Nil

\* the content filter has not been called on its own
NotCalled == [called |-> FALSE, posts |-> <<>>]
Called(posts) == [called |-> TRUE, posts |-> posts]

NoFilter ==
  /\ mIn = <<>>
  /\ mVerdict = Nil
  /\ mOut = NotCalled
  /\ mAgain = NotCalled

\* GET /health and POST /feedback have not been called
NoAdmin ==
  /\ health = Nil
  /\ feedback_log = <<>>
  /\ fbLast = Nil

-----------------------------------------------------------------------------
(* The HTTP handlers and the orchestrator: inputs *)

\* post_count of a request body: an integer, or absent (None)
Count(n) == [given |-> TRUE, n |-> n]
NoCount == [given |-> FALSE, n |-> 0]

Topics == {<<>>, <<" ">>, <<" ", "a", " ", "i", " ">>}
PostCounts == {NoCount} \cup {Count(n) : n \in {-1, 0, 1, 2, 4, 11}}
Tones == {NoText}
Audiences == {NoText}
Endpoints == {"generate_posts", "generate_posts_stream"}

Requests ==
  [endpoint : Endpoints, topic : Topics, tone : Tones, audience : Audiences,
   post_count : PostCounts, use_web_search : BOOLEAN]

\* the requests of two callers at the same time: well-formed, one post each
PairRequests ==
  [endpoint : Endpoints, topic : {<<" ", "a", " ", "i", " ">>}, tone : Tones,
   audience : Audiences, post_count : {Count(1)}, use_web_search : {FALSE}]

SearchOutcomes ==
  {SearchOutcome("import_error", <<>>), SearchOutcome("exception", <<>>),
   SearchOutcome("ok", <<>>),
   SearchOutcome("ok", << [title |-> <<"T">>, body |-> NoText] >>)}

\* the texts a live provider answers with, for each kind of prompt
LiveTexts(kind) ==
  CASE kind = "brainstorm" ->
         { <<"1", ".", " ", "x", "\n", "2", ".", "y">>,
           <<"-", " ", "x", "\n", "U+2022", "y", "\n", " ", "3", ".", "z", "\n", "w">>,
           <<"x", "\n", "1", ".", " ">> }
    [] kind = "draft" -> { <<" ", "P", "o", "s", "t", "\n">>, <<" ">> }
    [] kind = "refine" ->
         { <<"o", "k", ":", " ", "{", "JsonGood", "}">>,
           <<"n", "o">>,
           <<"{", "JsonNullCta", "}">> }

\* What the network does with a request of a run: it answers with one of the
\* texts, or with an error status.  (Every outcome, with its latency and its
\* token count, is tried on the client on its own: ClientOutcomes.)
PipelineOutcomes(kind) ==
  {OkOutcome(text, 1, Usage(1)) : text \in LiveTexts(kind)}
  \cup {FailOutcome("http_error", 1)}

-----------------------------------------------------------------------------
(* The events of the streaming form, and what stream_posts sends *)

Frac(num, den) == [num |-> num, den |-> den]

StatusEvent(status, progress) == [status |-> status, progress |-> Frac(progress, 1)]

\* the event of the post at index i (from 0) of n
PostEventIndexFromOne(post, i, n) ==
  [type |-> "post", data |-> post, index |-> i + 1,
   progress |-> Frac(65 * n + 25 * (i + 1), n)]
PostEvent(post, i, n) ==
  [type |-> "post", data |-> post, index |-> i,
   progress |-> Frac(65 * n + 25 * (i + 1), n)]

MetricsEvent(metrics) ==
  [type |-> "metrics", data |-> metrics, progress |-> Frac(95, 1)]

CompleteEvent(posts, metrics, use_web_search, context) ==
  [type |-> "complete", posts |-> posts, metrics |-> metrics,
   used_web_search |-> use_web_search, context_found |-> context # <<>>,
   progress |-> Frac(100, 1)]

ErrorEvent(exc) == [type |-> "error", message |-> exc, progress |-> Frac(0, 1)]

\* the name of an event: its "type", or its "status"
EventTag(e) == IF "type" \in DOMAIN e THEN e.type ELSE e.status

\* what stream_posts sends of its own
SseInputError(detail) == [error |-> detail]
SseStarting == [status |-> "starting", message |-> "Initializing AI generation..."]

-----------------------------------------------------------------------------
(* The HTTP handlers: generate_posts and stream_posts *)

IsStream(r) == req[r].endpoint = "generate_posts_stream"

\* not request.topic or not request.topic.strip()
TopicMissingUnstripped(topic) == topic = <<>>
TopicMissing(topic) == topic = <<>> \/ Strip(topic) = <<>>

\* request.post_count and (request.post_count < 1 or request.post_count > 10)
CountRejected(post_count) ==
  /\ post_count.given /\ post_count.n # 0
  /\ (post_count.n < 1 \/ post_count.n > 10)

\* 3 for None only: a post_count of 0 is passed on
CountOrDefaultKeepsZero(post_count) ==
  IF post_count.given THEN post_count.n ELSE 3
\* request.post_count or 3
CountOrDefault(post_count) ==
  IF post_count.given /\ post_count.n # 0 THEN post_count.n ELSE 3

\* the status generate_posts answers an exception with: the handlers of its try
StatusForAlways500(exc) == 500
StatusFor(exc) == IF exc = "LLMProviderError" THEN 502 ELSE 500

\* the arguments the handlers call the orchestrator with, and its first locals
RunArgs(q, api_key) ==
  [topic |-> Strip(q.topic),
   tone |-> q.tone,
   audience |-> q.audience,
   post_count |-> CountOrDefault(q.post_count),
   use_web_search |-> q.use_web_search,
   api_key |-> api_key,
   context |-> <<>>,
   angles_response |-> <<>>,
   angles |-> <<>>,
   drafted_posts |-> <<>>,
   refinement_responses |-> <<>>,
   final_posts |-> <<>>]

\* events yielded by the streaming form, each sent on by stream_posts
Yield(r, evs) ==
  IF IsStream(r)
  THEN /\ events' = [events EXCEPT ![r] = @ \o evs]
       /\ sse' = [sse EXCEPT ![r] = @ \o evs]
  ELSE UNCHANGED <<events, sse>>

\* the requests that can arrive: any when one is handled, the well-formed
\* ones when two are handled at the same time
Arriving ==
  IF \E r \in Reqs : pc[r] = "off" THEN Requests ELSE PairRequests

\* a request arrives
Receive(r) ==
  /\ pc[r] = "idle"
  /\ \E q \in Arriving : req' = [req EXCEPT ![r] = q]
  /\ pc' = [pc EXCEPT ![r] = "validate"]
  /\ UNCHANGED <<answered, config, run, client, tasks, events, sse, resp, raised, net>>
  /\ UNCHANGED offlineVars

\* generate_posts, lines 198-203: the HTTPException(400) is raised inside the try
ValidateReject(r) ==
  /\ pc[r] = "validate" /\ ~IsStream(r)
  /\ TopicMissing(req[r].topic) \/ CountRejected(req[r].post_count)
  /\ raised' = [raised EXCEPT ![r] = "HTTPException(400)"]
  /\ pc' = [pc EXCEPT ![r] = "except"]
  /\ UNCHANGED <<answered, config, req, run, client, tasks, events, sse, resp, net>>
  /\ UNCHANGED offlineVars

\* stream_posts, lines 265-271: one error datum, and the stream ends
StreamValidateReject(r) ==
  /\ pc[r] = "validate" /\ IsStream(r)
  /\ TopicMissing(req[r].topic) \/ CountRejected(req[r].post_count)
  /\ sse' = [sse EXCEPT ![r] =
               Append(@, SseInputError(IF TopicMissing(req[r].topic)
                                       THEN "Topic is required and cannot be empty"
                                       ELSE "Post count must be between 1 and 10"))]
  /\ pc' = [pc EXCEPT ![r] = "done"]
  /\ UNCHANGED <<answered, config, req, run, client, tasks, events, resp, raised, net>>
  /\ UNCHANGED offlineVars

\* both handlers: the request passes, and the orchestrator is called
ValidateAccept(r) ==
  /\ pc[r] = "validate"
  /\ ~(TopicMissing(req[r].topic) \/ CountRejected(req[r].post_count))
  /\ run' = [run EXCEPT ![r] = RunArgs(req[r], config)]
  /\ sse' = [sse EXCEPT ![r] = IF IsStream(r) THEN Append(@, SseStarting) ELSE @]
  /\ pc' = [pc EXCEPT ![r] = "construct"]
  /\ UNCHANGED <<answered, config, req, client, tasks, events, resp, raised, net>>
  /\ UNCHANGED offlineVars

-----------------------------------------------------------------------------
(* The orchestrator: create_linkedin_posts and create_linkedin_posts_stream *)

\* a text argument that is given and not empty ("if tone", "if context")
Given(text) == text # NoText /\ text # <<>>

BrainstormPrompt(a) ==
  Prompt("brainstorm", <<a.topic>> \o (IF Given(a.context) THEN <<a.context>> ELSE <<>>))

DraftPrompt(a, angle) ==
  Prompt("draft",
         (IF Given(a.context) THEN <<a.context>> ELSE <<>>)
           \o <<angle>>
           \o (IF Given(a.audience) THEN <<a.audience>> ELSE <<>>)
           \o (IF Given(a.tone) THEN <<a.tone>> ELSE <<>>))

RefinePrompt(post) == Prompt("refine", <<post>>)

\* llm_client.generate_text(prompt) up to its first suspension: a client in mock
\* mode has returned, a client in live mode has a request in flight
NewTask(c, prompt) ==
  IF c.use_mock
  THEN [prompt |-> prompt, state |-> "done", result |-> MockCall(c, prompt).result]
  ELSE [prompt |-> prompt, state |-> "inflight", result |-> Nil]

\* the requests a stage's calls put in flight
Requested(ts) == Cardinality({i \in 1..Len(ts) : ts[i].state = "inflight"})

AnyFailed(ts) == \E i \in 1..Len(ts) : ts[i].state = "failed"
AllDone(ts) == \A i \in 1..Len(ts) : ts[i].state = "done"
\* the results in another order than the calls were made in
TextsReversed(ts) == [i \in 1..Len(ts) |-> ts[Len(ts) + 1 - i].result.text]
\* asyncio.gather returns the results in the order of its arguments
Texts(ts) == [i \in 1..Len(ts) |-> ts[i].result.text]

\* one client for the whole process, handed to every request: a request that
\* starts while another runs starts from the other's counters
ConstructShared(r) ==
  /\ pc[r] = "construct"
  /\ client' = [client EXCEPT ![r] =
                  IF \E o \in Reqs \ {r} : client[o] # Nil
                  THEN client[CHOOSE o \in Reqs \ {r} : client[o] # Nil]
                  ELSE NewClient(GROQ, run[r].api_key)]
  /\ Yield(r, <<StatusEvent("starting", 5)>>)
  /\ pc' = [pc EXCEPT ![r] = "research"]
  /\ UNCHANGED <<answered, config, req, run, tasks, resp, raised, net>>
  /\ UNCHANGED offlineVars

\* LLMClient(provider="groq", api_key=api_key), and the "starting" event
Construct(r) ==
  /\ pc[r] = "construct"
  /\ IF ProviderOk(GROQ)
     THEN /\ client' = [client EXCEPT ![r] = NewClient(GROQ, run[r].api_key)]
          /\ Yield(r, <<StatusEvent("starting", 5)>>)
          /\ pc' = [pc EXCEPT ![r] = "research"]
          /\ UNCHANGED raised
     ELSE /\ raised' = [raised EXCEPT ![r] = "ValueError"]
          /\ pc' = [pc EXCEPT ![r] = "except"]
          /\ UNCHANGED <<client, events, sse>>
  /\ UNCHANGED <<answered, config, req, run, tasks, resp, net>>
  /\ UNCHANGED offlineVars

\* the search without the handlers of web_search: a missing library or an
\* exception inside the search reaches the orchestrator
ResearchHalts(r) ==
  /\ pc[r] = "research" /\ run[r].use_web_search
  /\ Yield(r, <<StatusEvent("researching", 15)>>)
  /\ \E o \in SearchOutcomes :
       IF o.kind \in {"import_error", "exception"}
       THEN /\ raised' = [raised EXCEPT ![r] = "Exception"]
            /\ pc' = [pc EXCEPT ![r] = "except"]
            /\ UNCHANGED run
       ELSE /\ run' = [run EXCEPT ![r].context = WebSearch(o)]
            /\ pc' = [pc EXCEPT ![r] = "brainstorm"]
            /\ UNCHANGED raised
  /\ net' = [net EXCEPT ![r].search = @ + 1]
  /\ UNCHANGED <<answered, config, req, client, tasks, resp>>
  /\ UNCHANGED offlineVars

\* Step 0 with use_web_search set: the "researching" event, and the search
Research(r) ==
  /\ pc[r] = "research" /\ run[r].use_web_search
  /\ Yield(r, <<StatusEvent("researching", 15)>>)
  /\ \E o \in SearchOutcomes :
       run' = [run EXCEPT ![r].context = WebSearch(o)]
  /\ net' = [net EXCEPT ![r].search = @ + 1]
  /\ pc' = [pc EXCEPT ![r] = "brainstorm"]
  /\ UNCHANGED <<answered, config, req, client, tasks, resp, raised>>
  /\ UNCHANGED offlineVars

\* Step 0 with use_web_search not set
ResearchSkip(r) ==
  /\ pc[r] = "research" /\ ~run[r].use_web_search
  /\ pc' = [pc EXCEPT ![r] = "brainstorm"]
  /\ UNCHANGED <<answered, config, req, run, client, tasks, events, sse, resp, raised, net>>
  /\ UNCHANGED offlineVars

\* Step A: the "brainstorming" event, and the brainstorm call is made
Brainstorm(r) ==
  /\ pc[r] = "brainstorm"
  /\ Yield(r, <<StatusEvent("brainstorming", 25)>>)
  /\ LET ts == <<NewTask(client[r], BrainstormPrompt(run[r]))>>
     IN  /\ tasks' = [tasks EXCEPT ![r] = ts]
         /\ net' = [net EXCEPT ![r].provider = @ + Requested(ts)]
  /\ pc' = [pc EXCEPT ![r] = "brainstorm_wait"]
  /\ UNCHANGED <<answered, config, req, run, client, resp, raised>>
  /\ UNCHANGED offlineVars

\* the network answers the request of call i of the stage
TaskComplete(r, i) ==
  /\ i \in 1..Len(tasks[r])
  /\ tasks[r][i].state = "inflight"
  /\ \E o \in PipelineOutcomes(tasks[r][i].prompt.kind) :
       LET call == LiveCall(client[r], tasks[r][i].prompt, o)
       IN  /\ client' = [client EXCEPT ![r] = call.client]
           /\ tasks' = [tasks EXCEPT ![r][i] =
                          [@ EXCEPT !.state = IF call.result.raised = None
                                              THEN "done" ELSE "failed",
                                    !.result = call.result]]
  /\ answered' = Append(answered, r)
  /\ UNCHANGED <<config, req, pc, run, events, sse, resp, raised, net>>
  /\ UNCHANGED offlineVars

\* a failed call of the draft or refine stage is left out and the run goes on
\* with the results of the other calls
StageRaisePartial(r) ==
  /\ pc[r] \in {"brainstorm_wait", "draft_wait", "refine_wait"}
  /\ AnyFailed(tasks[r])
  /\ \A i \in 1..Len(tasks[r]) : tasks[r][i].state # "inflight"
  /\ LET kept == SelectSeq(tasks[r], LAMBDA t : t.state = "done")
     IN  CASE pc[r] = "brainstorm_wait" ->
                /\ raised' = [raised EXCEPT ![r] = "LLMProviderError"]
                /\ pc' = [pc EXCEPT ![r] = "except"]
                /\ UNCHANGED run
           [] pc[r] = "draft_wait" ->
                /\ run' = [run EXCEPT ![r].drafted_posts = Texts(kept)]
                /\ pc' = [pc EXCEPT ![r] = "refine"]
                /\ UNCHANGED raised
           [] pc[r] = "refine_wait" ->
                /\ run' = [run EXCEPT ![r].refinement_responses = Texts(kept),
                                      ![r].drafted_posts = SubSeq(@, 1, Len(kept))]
                /\ pc' = [pc EXCEPT ![r] = "assemble"]
                /\ UNCHANGED raised
  /\ UNCHANGED <<answered, config, req, client, tasks, events, sse, resp, net>>
  /\ UNCHANGED offlineVars

\* an awaited call, or a call asyncio.gather awaits, has raised: the exception
\* reaches the orchestrator while the other calls of the stage go on
StageRaise(r) ==
  /\ pc[r] \in {"brainstorm_wait", "draft_wait", "refine_wait"}
  /\ AnyFailed(tasks[r])
  /\ raised' = [raised EXCEPT ![r] = "LLMProviderError"]
  /\ pc' = [pc EXCEPT ![r] = "except"]
  /\ UNCHANGED <<answered, config, req, run, client, tasks, events, sse, resp, net>>
  /\ UNCHANGED offlineVars

\* the brainstorm call has returned: the angles are parsed
BrainstormDone(r) ==
  /\ pc[r] = "brainstorm_wait"
  /\ AllDone(tasks[r])
  /\ run' = [run EXCEPT ![r].angles_response = tasks[r][1].result.text,
                         ![r].angles =
               Angles(tasks[r][1].result.text, run[r].topic, run[r].post_count)]
  /\ tasks' = [tasks EXCEPT ![r] = <<>>]
  /\ pc' = [pc EXCEPT ![r] = "draft"]
  /\ UNCHANGED <<answered, config, req, client, events, sse, resp, raised, net>>
  /\ UNCHANGED offlineVars

\* Step B: the "drafting" event, and one call for each angle is made
Draft(r) ==
  /\ pc[r] = "draft"
  /\ Yield(r, <<StatusEvent("drafting", 40)>>)
  /\ LET ts == [i \in 1..Len(run[r].angles) |->
                  NewTask(client[r], DraftPrompt(run[r], run[r].angles[i]))]
     IN  /\ tasks' = [tasks EXCEPT ![r] = ts]
         /\ net' = [net EXCEPT ![r].provider = @ + Requested(ts)]
  /\ pc' = [pc EXCEPT ![r] = "draft_wait"]
  /\ UNCHANGED <<answered, config, req, run, client, resp, raised>>
  /\ UNCHANGED offlineVars

\* asyncio.gather(*draft_tasks) returns: every call has returned
DraftDone(r) ==
  /\ pc[r] = "draft_wait"
  /\ AllDone(tasks[r])
  /\ run' = [run EXCEPT ![r].drafted_posts = Texts(tasks[r])]
  /\ tasks' = [tasks EXCEPT ![r] = <<>>]
  /\ pc' = [pc EXCEPT ![r] = "refine"]
  /\ UNCHANGED <<answered, config, req, client, events, sse, resp, raised, net>>
  /\ UNCHANGED offlineVars

\* Step C: the "refining" event, and one call for each drafted post is made
Refine(r) ==
  /\ pc[r] = "refine"
  /\ Yield(r, <<StatusEvent("refining", 65)>>)
  /\ LET ts == [i \in 1..Len(run[r].drafted_posts) |->
                  NewTask(client[r], RefinePrompt(run[r].drafted_posts[i]))]
     IN  /\ tasks' = [tasks EXCEPT ![r] = ts]
         /\ net' = [net EXCEPT ![r].provider = @ + Requested(ts)]
  /\ pc' = [pc EXCEPT ![r] = "refine_wait"]
  /\ UNCHANGED <<answered, config, req, run, client, resp, raised>>
  /\ UNCHANGED offlineVars

\* asyncio.gather(*refinement_tasks) returns: every call has returned
RefineDone(r) ==
  /\ pc[r] = "refine_wait"
  /\ AllDone(tasks[r])
  /\ run' = [run EXCEPT ![r].refinement_responses = Texts(tasks[r])]
  /\ tasks' = [tasks EXCEPT ![r] = <<>>]
  /\ pc' = [pc EXCEPT ![r] = "assemble"]
  /\ UNCHANGED <<answered, config, req, client, events, sse, resp, raised, net>>
  /\ UNCHANGED offlineVars

\* One turn of the loop that combines the drafts and the refinements.  The
\* streaming form moderates the post and yields it; the aggregate form keeps it
\* for the moderation of the whole list.
Assemble(r) ==
  /\ pc[r] = "assemble"
  /\ Len(run[r].final_posts) < Len(run[r].drafted_posts)
  /\ LET i == Len(run[r].final_posts) + 1
         n == Len(run[r].drafted_posts)
         fp == FinalPost(run[r].drafted_posts[i], run[r].refinement_responses[i],
                         run[r].topic)
         moderated_post == ApplyContentModeration(<<fp.post>>)[1]
     IN  IF fp.raised # None
         THEN /\ raised' = [raised EXCEPT ![r] = fp.raised]
              /\ pc' = [pc EXCEPT ![r] = "except"]
              /\ UNCHANGED <<run, events, sse>>
         ELSE /\ run' = [run EXCEPT ![r].final_posts =
                           Append(@, IF IsStream(r) THEN moderated_post ELSE fp.post)]
              /\ Yield(r, <<PostEvent(moderated_post, i - 1, n)>>)
              /\ UNCHANGED <<raised, pc>>
  /\ UNCHANGED <<answered, config, req, client, tasks, resp, net>>
  /\ UNCHANGED offlineVars

\* the aggregate form without its moderation step
ReturnUnmoderated(r) ==
  /\ pc[r] = "assemble" /\ ~IsStream(r)
  /\ Len(run[r].final_posts) = Len(run[r].drafted_posts)
  /\ resp' = [resp EXCEPT ![r] =
                [status |-> 200,
                 posts |-> run[r].final_posts,
                 metrics |-> GetMetrics(client[r]),
                 used_web_search |-> run[r].use_web_search,
                 context_found |-> run[r].context # <<>>]]
  /\ pc' = [pc EXCEPT ![r] = "done"]
  /\ UNCHANGED <<answered, config, req, run, client, tasks, events, sse, raised, net>>
  /\ UNCHANGED offlineVars

\* The aggregate form, lines 488-502, and generate_posts, lines 215-240: the list
\* is moderated, the metrics are taken, and the caller is answered.
Return(r) ==
  /\ pc[r] = "assemble" /\ ~IsStream(r)
  /\ Len(run[r].final_posts) = Len(run[r].drafted_posts)
  /\ resp' = [resp EXCEPT ![r] =
                [status |-> 200,
                 posts |-> ApplyContentModeration(run[r].final_posts),
                 metrics |-> GetMetrics(client[r]),
                 used_web_search |-> run[r].use_web_search,
                 context_found |-> run[r].context # <<>>]]
  /\ pc' = [pc EXCEPT ![r] = "done"]
  /\ UNCHANGED <<answered, config, req, run, client, tasks, events, sse, raised, net>>
  /\ UNCHANGED offlineVars

\* the streaming form, lines 671-678: the "metrics" event
StreamMetrics(r) ==
  /\ pc[r] = "assemble" /\ IsStream(r)
  /\ Len(run[r].final_posts) = Len(run[r].drafted_posts)
  /\ Yield(r, <<MetricsEvent(GetMetrics(client[r]))>>)
  /\ pc' = [pc EXCEPT ![r] = "complete"]
  /\ UNCHANGED <<answered, config, req, run, client, tasks, resp, raised, net>>
  /\ UNCHANGED offlineVars

\* the streaming form, lines 680-689: the "complete" event.  It carries the
\* metrics of the "metrics" event.
StreamComplete(r) ==
  /\ pc[r] = "complete"
  /\ Yield(r, <<CompleteEvent(run[r].final_posts,
                              events[r][Len(events[r])].data,
                              run[r].use_web_search, run[r].context)>>)
  /\ pc' = [pc EXCEPT ![r] = "done"]
  /\ UNCHANGED <<answered, config, req, run, client, tasks, resp, raised, net>>
  /\ UNCHANGED offlineVars

\* generate_posts, lines 242-253: the exception is answered with a status
Except(r) ==
  /\ pc[r] = "except" /\ ~IsStream(r)
  /\ resp' = [resp EXCEPT ![r] = [status |-> StatusFor(raised[r])]]
  /\ pc' = [pc EXCEPT ![r] = "done"]
  /\ UNCHANGED <<answered, config, req, run, client, tasks, events, sse, raised, net>>
  /\ UNCHANGED offlineVars

\* the streaming form, lines 691-697: the exception is caught and the "error"
\* event is yielded
StreamExceptSilent(r) ==
  /\ pc[r] = "except" /\ IsStream(r)
  /\ pc' = [pc EXCEPT ![r] = "done"]
  /\ UNCHANGED <<answered, config, req, run, client, tasks, events, sse, resp, raised, net>>
  /\ UNCHANGED offlineVars
StreamExcept(r) ==
  /\ pc[r] = "except" /\ IsStream(r)
  /\ Yield(r, <<ErrorEvent(raised[r])>>)
  /\ pc' = [pc EXCEPT ![r] = "done"]
  /\ UNCHANGED <<answered, config, req, run, client, tasks, resp, raised, net>>
  /\ UNCHANGED offlineVars

Init ==
  /\ config \in ApiKeys
  /\ ServerIdle
  /\ NoLoneClient
  /\ NoFilter
  /\ NoAdmin

Next ==
  \E r \in Reqs :
    \/ Receive(r)
    \/ ValidateReject(r)
    \/ StreamValidateReject(r)
    \/ ValidateAccept(r)
    \/ Construct(r)
    \/ Research(r)
    \/ ResearchSkip(r)
    \/ Brainstorm(r)
    \/ \E i \in 1..Len(tasks[r]) : TaskComplete(r, i)
    \/ StageRaise(r)
    \/ BrainstormDone(r)
    \/ Draft(r)
    \/ DraftDone(r)
    \/ Refine(r)
    \/ RefineDone(r)
    \/ Assemble(r)
    \/ Return(r)
    \/ StreamMetrics(r)
    \/ StreamComplete(r)
    \/ Except(r)
    \/ StreamExcept(r)

Spec == Init /\ [][Next]_vars

\* A step of Next is possible: a request can still arrive or is being handled,
\* or a provider call is still in flight.
Ready ==
  \E r \in Reqs :
    \/ pc[r] \notin {"done", "off"}
    \/ \E i \in 1..Len(tasks[r]) : tasks[r][i].state = "inflight"

\* Every step that is ready is taken in the end: the event loop runs what is
\* ready, and every provider call is answered or fails.  This is weak fairness
\* of Next, with Ready standing for ENABLED <<Next>>_vars.
FairSpec == Spec /\ ([]<>(~Ready) \/ []<><<Next>>_vars)

\* Ready is ENABLED <<Next>>_vars: a step is taken in a Ready state only, and
\* with Halt added for the states that are not Ready no state is without a step.
OnlyWhenReady == [][Ready]_vars
Halt == ~Ready /\ UNCHANGED vars
HaltSpec == Init /\ [][Next \/ Halt]_vars

-----------------------------------------------------------------------------
(* Two requests handled at the same time: the event loop switches between
   them at every await, so their provider calls interleave *)

PairInit ==
  /\ config \in {"", "gsk_live"}
  /\ NoRequest
  /\ pc = [r \in Reqs |-> "idle"]
  /\ NoLoneClient
  /\ NoFilter
  /\ NoAdmin

\* the steps of Next that a well-formed request without web search can take
PairNext ==
  \E r \in Reqs :
    \/ Receive(r)
    \/ ValidateAccept(r)
    \/ Construct(r)
    \/ ResearchSkip(r)
    \/ Brainstorm(r)
    \/ \E i \in 1..Len(tasks[r]) : TaskComplete(r, i)
    \/ StageRaise(r)
    \/ BrainstormDone(r)
    \/ Draft(r)
    \/ DraftDone(r)
    \/ Refine(r)
    \/ RefineDone(r)
    \/ Assemble(r)
    \/ Return(r)
    \/ StreamMetrics(r)
    \/ StreamComplete(r)
    \/ Except(r)
    \/ StreamExcept(r)

PairSpec == PairInit /\ [][PairNext]_vars

-----------------------------------------------------------------------------
(* The two forms side by side: request r1 is handled by the aggregate form,
   then request r2, with the same body, by the streaming form, and the search
   and the provider answer the second run as they answered the first *)

TwinRequests ==
  [endpoint : {"generate_posts"}, topic : {<<" ", "a", " ", "i", " ">>},
   tone : Tones, audience : Audiences, post_count : {Count(2)},
   use_web_search : BOOLEAN]

\* the texts the provider answers with: those of LiveTexts, and a draft that
\* the content filter refuses
TwinTexts(kind) ==
  IF kind = "draft"
  THEN { <<" ", "P", "o", "s", "t", "\n">>, <<"s", "p", "a", "m">> }
  ELSE LiveTexts(kind)

TwinOutcomes(kind) ==
  {OkOutcome(text, 1, Usage(1)) : text \in TwinTexts(kind)}
  \cup {FailOutcome("http_error", 1)}

TwinInit ==
  /\ config \in {"", "gsk_live"}
  /\ NoRequest
  /\ pc = [r \in Reqs |-> "idle"]
  /\ NoLoneClient
  /\ NoFilter
  /\ NoAdmin

\* the two requests arrive: the same body for both endpoints
TwinArrive ==
  /\ \A r \in Reqs : pc[r] = "idle"
  /\ \E q \in TwinRequests :
       req' = [r \in Reqs |->
                 IF r = "r1" THEN q
                 ELSE [q EXCEPT !.endpoint = "generate_posts_stream"]]
  /\ pc' = [r \in Reqs |-> "validate"]
  /\ UNCHANGED <<answered, config, run, client, tasks, events, sse, resp, raised, net>>
  /\ UNCHANGED offlineVars

\* the network answers call i of the stage of the first run
TwinAnswer(r, i) ==
  /\ i \in 1..Len(tasks[r])
  /\ tasks[r][i].state = "inflight"
  /\ \E o \in TwinOutcomes(tasks[r][i].prompt.kind) :
       LET call == LiveCall(client[r], tasks[r][i].prompt, o)
       IN  /\ client' = [client EXCEPT ![r] = call.client]
           /\ tasks' = [tasks EXCEPT ![r][i] =
                          [@ EXCEPT !.state = IF call.result.raised = None
                                              THEN "done" ELSE "failed",
                                    !.result = call.result]]
  /\ answered' = Append(answered, r)
  /\ UNCHANGED <<config, req, pc, run, events, sse, resp, raised, net>>
  /\ UNCHANGED offlineVars

\* the run of r is over and none of its calls is in flight
Quiet(r) ==
  /\ pc[r] = "done"
  /\ \A i \in 1..Len(tasks[r]) : tasks[r][i].state # "inflight"

\* the calls of a kind the run of r made, and what call i of them resulted in:
\* the calls of the stage the run failed in are in tasks[r], the texts of the
\* stages before are in the locals of the run
MadeCalls(r, kind) ==
  IF tasks[r] # <<>> /\ tasks[r][1].prompt.kind = kind THEN Len(tasks[r])
  ELSE IF tasks[r] # <<>> /\ tasks[r][1].prompt.kind = "brainstorm" THEN 0
  ELSE CASE kind = "brainstorm" -> IF run[r].angles = <<>> THEN 0 ELSE 1
         [] kind = "draft" -> Len(run[r].drafted_posts)
         [] kind = "refine" -> Len(run[r].refinement_responses)

GotBy(r, kind, i) ==
  IF tasks[r] # <<>> /\ tasks[r][1].prompt.kind = kind THEN tasks[r][i].result
  ELSE Returned(CASE kind = "brainstorm" -> run[r].angles_response
                  [] kind = "draft" -> run[r].drafted_posts[i]
                  [] kind = "refine" -> run[r].refinement_responses[i],
                FALSE)

\* the network answers call i of the stage of the second run as it answered
\* that call of the first run
TwinReplay(r, i) ==
  /\ i \in 1..Len(tasks[r])
  /\ tasks[r][i].state = "inflight"
  /\ i <= MadeCalls("r1", tasks[r][i].prompt.kind)
  /\ \E o \in TwinOutcomes(tasks[r][i].prompt.kind) :
       LET call == LiveCall(client[r], tasks[r][i].prompt, o)
       IN  /\ call.result = GotBy("r1", tasks[r][i].prompt.kind, i)
           /\ client' = [client EXCEPT ![r] = call.client]
           /\ tasks' = [tasks EXCEPT ![r][i] =
                          [@ EXCEPT !.state = IF call.result.raised = None
                                              THEN "done" ELSE "failed",
                                    !.result = call.result]]
  /\ answered' = Append(answered, r)
  /\ UNCHANGED <<config, req, pc, run, events, sse, resp, raised, net>>
  /\ UNCHANGED offlineVars

\* the search of the second run gives the digest it gave the first run
TwinResearch(r) ==
  /\ pc[r] = "research" /\ run[r].use_web_search
  /\ Yield(r, <<StatusEvent("researching", 15)>>)
  /\ \E o \in SearchOutcomes :
       /\ WebSearch(o) = run["r1"].context
       /\ run' = [run EXCEPT ![r].context = WebSearch(o)]
  /\ net' = [net EXCEPT ![r].search = @ + 1]
  /\ pc' = [pc EXCEPT ![r] = "brainstorm"]
  /\ UNCHANGED <<answered, config, req, client, tasks, resp, raised>>
  /\ UNCHANGED offlineVars

\* the steps of the aggregate run
TwinFirst(r) ==
  \/ ValidateAccept(r)
  \/ Construct(r)
  \/ Research(r)
  \/ ResearchSkip(r)
  \/ Brainstorm(r)
  \/ \E i \in 1..Len(tasks[r]) : TwinAnswer(r, i)
  \/ StageRaise(r)
  \/ BrainstormDone(r)
  \/ Draft(r)
  \/ DraftDone(r)
  \/ Refine(r)
  \/ RefineDone(r)
  \/ Assemble(r)
  \/ Return(r)
  \/ Except(r)

\* the steps of the streaming run, taken when the aggregate run is over
TwinSecond(r) ==
  \/ Quiet("r1") /\ ValidateAccept(r)
  \/ Quiet("r1") /\ Construct(r)
  \/ Quiet("r1") /\ TwinResearch(r)
  \/ Quiet("r1") /\ ResearchSkip(r)
  \/ Quiet("r1") /\ Brainstorm(r)
  \/ Quiet("r1") /\ \E i \in 1..Len(tasks[r]) : TwinReplay(r, i)
  \/ Quiet("r1") /\ StageRaise(r)
  \/ Quiet("r1") /\ BrainstormDone(r)
  \/ Quiet("r1") /\ Draft(r)
  \/ Quiet("r1") /\ DraftDone(r)
  \/ Quiet("r1") /\ Refine(r)
  \/ Quiet("r1") /\ RefineDone(r)
  \/ Quiet("r1") /\ Assemble(r)
  \/ Quiet("r1") /\ StreamMetrics(r)
  \/ Quiet("r1") /\ StreamComplete(r)
  \/ Quiet("r1") /\ StreamExcept(r)

TwinNext == TwinArrive \/ TwinFirst("r1") \/ TwinSecond("r2")

TwinSpec == TwinInit /\ [][TwinNext]_vars

-----------------------------------------------------------------------------
(* A client on its own: constructed, then called any number of times *)

ClientProviders ==
  {GROQ, <<"G", "r", "o", "q">>, GEMINI, <<"o", "p", "e", "n", "a", "i">>}

ClientPrompts ==
  {Prompt("brainstorm", <<>>), Prompt("draft", <<>>), Prompt("refine", <<>>),
   Prompt("other", <<>>),
   Prompt("other", << <<"W", "r", "i", "t", "e", " ", "a", " ",
                        "L", "i", "n", "k", "e", "d", "I", "n", " ",
                        "p", "o", "s", "t">> >>)}

ClientOutcomes ==
  {OkOutcome(<<"o", "k">>, l, u) :
     l \in 1..MaxLatency,
     u \in {NoUsage} \cup {Usage(n) : n \in 0..MaxTokens}}
  \cup {FailOutcome(k, l) : k \in FailureKinds, l \in 1..MaxLatency}

\* LLMClient(provider, api_key): cl stays Nil when the constructor raises
ClientInit ==
  /\ config = ""
  /\ ServerIdle
  /\ NoFilter
  /\ NoAdmin
  /\ \E provider \in ClientProviders, api_key \in ApiKeys :
       /\ clAsk = [provider |-> provider, api_key |-> api_key]
       /\ cl = IF ProviderOk(provider) THEN NewClient(provider, api_key) ELSE Nil
  /\ clLast = Nil
  /\ clDone = 0
  /\ clNet = 0
  /\ clMetrics = Nil

\* generate_text on a client in mock mode
ClientGenerateMock ==
  /\ cl # Nil /\ cl.use_mock /\ clDone < MaxCalls
  /\ \E prompt \in ClientPrompts :
       LET call == MockCall(cl, prompt)
       IN  /\ cl' = call.client
           /\ clLast' = [prompt |-> prompt, outcome |-> Nil, result |-> call.result]
  /\ clDone' = clDone + 1
  /\ UNCHANGED <<clNet, clMetrics>>
  /\ UNCHANGED <<clAsk, serverVars, filterVars, adminVars>>

\* generate_text on a client in live mode: one request, answered with o
ClientGenerateLive ==
  /\ cl # Nil /\ ~cl.use_mock /\ clDone < MaxCalls
  /\ \E prompt \in ClientPrompts, o \in ClientOutcomes :
       LET call == LiveCall(cl, prompt, o)
       IN  /\ cl' = call.client
           /\ clLast' = [prompt |-> prompt, outcome |-> o, result |-> call.result]
  /\ clDone' = clDone + 1
  /\ clNet' = clNet + 1
  /\ UNCHANGED clMetrics
  /\ UNCHANGED <<clAsk, serverVars, filterVars, adminVars>>

\* get_metrics
ClientGetMetrics ==
  /\ cl # Nil
  /\ clMetrics' = GetMetrics(cl)
  /\ UNCHANGED <<cl, clLast, clDone, clNet>>
  /\ UNCHANGED <<clAsk, serverVars, filterVars, adminVars>>

ClientNext == ClientGenerateMock \/ ClientGenerateLive \/ ClientGetMetrics

ClientSpec == ClientInit /\ [][ClientNext]_vars

-----------------------------------------------------------------------------
(* The content filter on its own: moderate_content on the text of a post,
   apply_content_moderation on a list of posts and on its own result *)

Rep(c, n) == [i \in 1..n |-> c]

\* texts that match no rule, one rule, or several
FilterTexts ==
  {<<"o", "k">>,
   <<"s", "p", "a", "m", "!", "!", "!">>,
   <<"f", "r", "a", "u", "d", " ", "s", "c", "a", "m">>,
   <<"S", "P", "A", "M">>,
   Rep("A", 50),
   Rep("A", 51),
   Rep("A", 49) \o Rep("a", 21),
   Rep("A", 50) \o Rep("a", 20),
   Rep("A", 51) \o <<"!", "!", "!">>,
   Rep("A", 10) \o <<"?", "?", "?">>,
   <<"w", "o", "w", "!", "?", "!">>,
   <<"s", "o", ".", ".", ".", ".">>,
   ModerationNotice}

\* posts with each of the texts, and a post whose text is clean and whose
\* hashtags and cta hold terms of the denylist
FilterPosts ==
  {[post_text |-> text, hashtags |-> << <<"#", "a">> >>, cta |-> <<"c">>] :
     text \in FilterTexts}
  \cup {[post_text |-> <<"o", "k">>,
         hashtags |-> << <<"#", "s", "p", "a", "m">> >>,
         cta |-> <<"s", "c", "a", "m">>]}

FilterInit ==
  /\ config = ""
  /\ ServerIdle
  /\ NoLoneClient
  /\ NoAdmin
  /\ \E n \in 0..MaxPosts : mIn \in [1..n -> FilterPosts]
  /\ mVerdict = Nil
  /\ mOut = NotCalled
  /\ mAgain = NotCalled

\* moderate_content(post['post_text'])
FilterModerate ==
  /\ \E i \in 1..Len(mIn) :
       mVerdict' = [text |-> mIn[i].post_text,
                    result |-> ModerateContent(mIn[i].post_text)]
  /\ UNCHANGED <<mIn, mOut, mAgain>>
  /\ UNCHANGED <<serverVars, clientVars, adminVars>>

\* apply_content_moderation(posts): the replacement is written to a copy of the
\* post (line 331), so the posts given are as they were
FilterApply ==
  /\ ~mOut.called
  /\ mOut' = Called(ApplyContentModeration(mIn))
  /\ UNCHANGED <<mIn, mVerdict, mAgain>>
  /\ UNCHANGED <<serverVars, clientVars, adminVars>>

\* apply_content_moderation on its own result
FilterApplyAgain ==
  /\ mOut.called /\ ~mAgain.called
  /\ mAgain' = Called(ApplyContentModeration(mOut.posts))
  /\ UNCHANGED <<mIn, mVerdict, mOut>>
  /\ UNCHANGED <<serverVars, clientVars, adminVars>>

FilterNext == FilterModerate \/ FilterApply \/ FilterApplyAgain

FilterSpec == FilterInit /\ [][FilterNext]_vars

-----------------------------------------------------------------------------
(* GET /health and POST /feedback *)

\* GET /health: bool(config.get("groq_api_key")) is true of every key but ""
HealthCheck ==
  /\ health' = [status |-> "healthy", api_configured |-> config # ""]
  /\ UNCHANGED <<feedback_log, fbLast, serverVars, clientVars, filterVars>>

\* the timestamp field of a feedback request: absent (None) or a string
Stamp(at) == [given |-> TRUE, at |-> at]
NoStamp == [given |-> FALSE, at |-> ""]

FeedbackRequests ==
  [post_index : {0}, rating : {"positive", "negative"},
   post_preview : {"p"}, timestamp : {NoStamp, Stamp(""), Stamp("t")}]

\* feedback_entry, lines 315-321: request.timestamp or datetime.now()
FeedbackEntry(q) ==
  [timestamp |-> IF q.timestamp.given /\ q.timestamp.at # "" THEN q.timestamp.at
                 ELSE "now",
   post_index |-> q.post_index,
   rating |-> q.rating,
   post_preview |-> q.post_preview,
   session_id |-> "anonymous"]

\* what open(..., "a") and the write of the line can do: all of the line is
\* written; open raises and nothing is written; the write raises after the
\* system took a part of the line (the volume fills, a size limit is reached)
AppendOutcomes == {"written", "open_raises", "write_raises"}

\* what is in feedback.json after the append: lines, or the part of a line
Line(entry) == [entry |-> entry, whole |-> TRUE]
Torn(entry) == [entry |-> entry, whole |-> FALSE]

AppendToLog(log, entry, outcome) ==
  CASE outcome = "written" -> Append(log, Line(entry))
    [] outcome = "open_raises" -> log
    [] outcome = "write_raises" -> Append(log, Torn(entry))

\* lines 324-336: a failure of the append is logged only
AnswerFeedback(q, outcome) ==
  [status |-> 200, success |-> TRUE, rating |-> q.rating]

\* POST /feedback
SubmitFeedback ==
  /\ Len(feedback_log) < MaxFeedback
  /\ \E q \in FeedbackRequests, outcome \in AppendOutcomes :
       /\ feedback_log' = AppendToLog(feedback_log, FeedbackEntry(q), outcome)
       /\ fbLast' = [request |-> q, outcome |-> outcome,
                     before |-> feedback_log,
                     response |-> AnswerFeedback(q, outcome)]
  /\ UNCHANGED <<health, serverVars, clientVars, filterVars>>

AdminInit ==
  /\ config \in ApiKeys
  /\ ServerIdle
  /\ NoLoneClient
  /\ NoFilter
  /\ NoAdmin

AdminNext == HealthCheck \/ SubmitFeedback

AdminSpec == AdminInit /\ [][AdminNext]_vars

-----------------------------------------------------------------------------
(* Properties *)

\* a text that is empty or holds whitespace only
Blank(text) == \A i \in 1..Len(text) : IsSpace(text[i])

\* the request r has been answered with a refusal: an error status from
\* generate_posts, a lone error datum from stream_posts
Refused(r) ==
  IF IsStream(r)
  THEN Len(sse[r]) = 1 /\ DOMAIN sse[r][1] = {"error"}
  ELSE resp[r] # Nil /\ resp[r].status >= 400

\* no request has gone out for r, to the provider or to the search
NoCalls(r) == net[r].provider = 0 /\ net[r].search = 0 /\ tasks[r] = <<>>

Tags(evs) == [i \in 1..Len(evs) |-> EventTag(evs[i])]

\* C1: the aggregate form returns exactly post_count posts, each with a
\* non-empty post_text, a non-empty list of hashtags that all start with "#",
\* and a non-empty cta.
C1_ExactlyNWellFormedPosts ==
  \A r \in Reqs :
    (resp[r] # Nil /\ resp[r].status = 200) =>
      /\ Len(resp[r].posts) = run[r].post_count
      /\ \A i \in 1..Len(resp[r].posts) :
           LET post == resp[r].posts[i]
           IN  /\ post.post_text # <<>>
               /\ post.hashtags # <<>>
               /\ \A j \in 1..Len(post.hashtags) :
                    post.hashtags[j] # <<>> /\ post.hashtags[j][1] = "#"
               /\ post.cta # <<>>

\* C2: a request whose post_count is an integer outside [1,10] is refused by
\* both endpoints, and no provider call and no search call is made for it.
C2_CountOutsideRangeRefused ==
  \A r \in Reqs :
    (/\ req[r] # Nil
     /\ req[r].post_count.given
     /\ (req[r].post_count.n < 1 \/ req[r].post_count.n > 10)) =>
      /\ run[r] = Nil
      /\ NoCalls(r)
      /\ pc[r] = "done" => Refused(r)

\* C3: a request whose topic is empty or whitespace-only is refused by both
\* endpoints before the orchestrator is entered: no client is constructed and
\* no provider call or search call is made.
C3_BlankTopicRefused ==
  \A r \in Reqs :
    (req[r] # Nil /\ Blank(req[r].topic)) =>
      /\ run[r] = Nil
      /\ client[r] = Nil
      /\ NoCalls(r)
      /\ pc[r] = "done" => Refused(r)

C3_Witness ==
  \E r \in Reqs :
    /\ pc[r] = "done"
    /\ req[r].topic = <<" ">>
    /\ IsStream(r)
    /\ Refused(r)

\* C4: generate_posts answers an empty or whitespace-only topic, and a
\* post_count outside [1,10], with status 400.
C4_InputViolationIs400 ==
  \A r \in Reqs :
    (/\ resp[r] # Nil
     /\ \/ Blank(req[r].topic)
        \/ /\ req[r].post_count.given
           /\ (req[r].post_count.n < 1 \/ req[r].post_count.n > 10)) =>
      resp[r].status = 400

\* C5: generate_posts answers 502 exactly when a provider call of the run
\* failed, and 500 when the run failed for another reason that is no input
\* violation (an exception of the assembly loop).
C5_ProviderFailureIs502 ==
  \A r \in Reqs :
    resp[r] # Nil =>
      /\ AnyFailed(tasks[r]) => resp[r].status = 502
      /\ resp[r].status = 502 => AnyFailed(tasks[r])
      /\ raised[r] = "AttributeError" => resp[r].status = 500
      /\ resp[r].status = 500 => raised[r] \notin {None, "LLMProviderError"}

C5_Witness ==
  \E r \in Reqs :
    /\ resp[r] # Nil
    /\ resp[r].status = 502
    /\ AnyFailed(tasks[r])
    /\ pc[r] = "done"

\* C6: a live groq client answers every error status and every transport
\* failure by raising LLMProviderError, and a groq client returns mock text only
\* in mock mode; a live gemini client answers every failure by returning the
\* mock response, and never raises.
C6_FailurePolicyPerProvider ==
  (cl # Nil /\ clLast # Nil) =>
    /\ (/\ cl.provider = GROQ /\ ~cl.use_mock
        /\ clLast.outcome.kind \in {"http_error", "client_error", "exception"}) =>
         /\ clLast.result.raised = "LLMProviderError"
         /\ ~clLast.result.mock
    /\ (cl.provider = GROQ /\ clLast.result.mock) => cl.use_mock
    /\ (cl.provider = GEMINI /\ ~cl.use_mock) =>
         /\ clLast.result.raised = None
         /\ clLast.outcome.kind # "ok" =>
              /\ clLast.result.mock
              /\ clLast.result.text = MockResponse(clLast.prompt)

C6_Witness ==
  /\ cl # Nil /\ clLast # Nil
  /\ cl.provider = GEMINI /\ ~cl.use_mock
  /\ clLast.outcome.kind = "http_error"
  /\ clLast.result.mock

\* C7: on a live client call_count is the number of generate_text calls that
\* have completed.
C7_CallCountIsCompletedCalls ==
  (cl # Nil /\ ~cl.use_mock) => cl.call_count = clDone

\* C8: a client constructed with no credential, an empty one or a placeholder
\* is in mock mode after any number of calls: every call returned the mock
\* response, no request was made, and the counters and every snapshot of them
\* are 0.
C8_MockModeForLife ==
  (cl # Nil /\ cl.api_key \in {"", "your_api_key_here", "YOUR_API_KEY_HERE"}) =>
    /\ cl.use_mock
    /\ clNet = 0
    /\ cl.total_tokens = 0 /\ cl.total_latency = 0 /\ cl.call_count = 0
    /\ clLast # Nil =>
         /\ clLast.result.raised = None
         /\ clLast.result.mock
         /\ clLast.result.text \in
              {MockAnglesResponse, MockPostResponse, MockRefineResponse,
               MockDefaultResponse}
    /\ clMetrics # Nil =>
         /\ clMetrics.total_tokens = 0
         /\ clMetrics.total_latency = 0
         /\ clMetrics.call_count = 0

C8_Witness ==
  /\ cl # Nil
  /\ cl.api_key = "your_api_key_here"
  /\ clDone = MaxCalls
  /\ clMetrics # Nil
  /\ clLast.result.text = MockRefineResponse

\* the events of a run of the streaming form that does not fail, with k posts
ExpectedTags(use_web_search, k) ==
  <<"starting">>
    \o (IF use_web_search THEN <<"researching">> ELSE <<>>)
    \o <<"brainstorming", "drafting", "refining">>
    \o [i \in 1..k |-> "post"]
    \o <<"metrics", "complete">>

PostEvents(evs) == SelectSeq(evs, LAMBDA e : EventTag(e) = "post")

\* C9: a run of the streaming form in which no stage fails yields "starting",
\* "researching" iff use_web_search, "brainstorming", "drafting", "refining",
\* the post events with index 0..k-1 in order, "metrics" and "complete", and
\* "complete" carries the posts of the post events in their order.
C9_EventOrder ==
  \A r \in Reqs :
    (pc[r] = "done" /\ IsStream(r) /\ run[r] # Nil /\ raised[r] = None) =>
      LET evs == events[r]
          posts == PostEvents(evs)
      IN  /\ Tags(evs) = ExpectedTags(req[r].use_web_search, Len(posts))
          /\ \A i \in 1..Len(posts) : posts[i].index = i - 1
          /\ evs[Len(evs)].posts = [i \in 1..Len(posts) |-> posts[i].data]

C9_Witness ==
  \E r \in Reqs :
    /\ pc[r] = "done" /\ IsStream(r) /\ run[r] # Nil /\ raised[r] = None
    /\ req[r].use_web_search
    /\ Len(PostEvents(events[r])) = 4

IsTerminal(e) == EventTag(e) \in {"complete", "error"}

\* at most one terminal event, and nothing after it; a run that is over has
\* one, and it is "error" when a stage failed
TerminalOk(r) ==
  LET evs == events[r]
      terminal == {i \in 1..Len(evs) : IsTerminal(evs[i])}
  IN  /\ Cardinality(terminal) <= 1
      /\ terminal \subseteq {Len(evs)}
      /\ (pc[r] = "done" /\ run[r] # Nil /\ IsStream(r)) =>
           /\ terminal # {}
           /\ EventTag(evs[Len(evs)]) = "error" <=> raised[r] # None

\* C10: a run of the streaming form ends with exactly one terminal event,
\* "complete" or "error", and nothing after it; a failure at any stage gives the
\* "error" event and no "complete"; and the terminal event is yielded in the end.
C10_OneTerminalEvent ==
  /\ [](\A r \in Reqs : TerminalOk(r))
  /\ \A r \in Reqs :
       (pc[r] = "construct" /\ IsStream(r))
         ~> (events[r] # <<>> /\ IsTerminal(events[r][Len(events[r])]))

C10_Witness ==
  \E r \in Reqs :
    /\ pc[r] = "done" /\ run[r] # Nil /\ IsStream(r)
    /\ raised[r] = "AttributeError"
    /\ Len(events[r]) > 1
    /\ EventTag(events[r][Len(events[r])]) = "error"
    /\ EventTag(events[r][Len(events[r]) - 1]) = "post"

\* a progress value is at most the next one
FracLeq(a, b) == a.num * b.den <= b.num * a.den

\* C11: within a run of the streaming form, runs that end with the "error"
\* event included, the progress of each event is greater than or equal to the
\* progress of the event before it.
C11_ProgressNeverDrops ==
  \A r \in Reqs :
    \A i \in 1..(Len(events[r]) - 1) :
      FracLeq(events[r][i].progress, events[r][i + 1].progress)

\* the place of a word in the denylist, 0 for a word that is not in it
BannedIndex(word) ==
  IF \E i \in 1..Len(banned_words) : banned_words[i] = word
  THEN CHOOSE i \in 1..Len(banned_words) : banned_words[i] = word
  ELSE 0

\* C12: moderate_content applies its rules in a fixed order and the first that
\* matches decides: the denylist, case-insensitively and in list order, the
\* reason naming the first listed term that occurs; then, for a text longer
\* than 50 characters, an uppercase ratio above 0.7; then a run of three or more
\* of '!', '?' or '.'; the text is clean exactly when no rule matches.
C12_FirstRuleDecides ==
  mVerdict # Nil =>
    LET text == mVerdict.text
        v == mVerdict.result
        low == Lower(text)
        Hit(i) == Contains(low, banned_words[i])
        denied == \E i \in 1..Len(banned_words) : Hit(i)
        caps == TextLen(text) > 50 /\ 10 * CapsCount(text) > 7 * TextLen(text)
        punct == PunctRun(text)
    IN  /\ denied =>
             /\ v.rule = "banned"
             /\ BannedIndex(v.word) > 0
             /\ Hit(BannedIndex(v.word))
             /\ \A j \in 1..(BannedIndex(v.word) - 1) : ~Hit(j)
        /\ (~denied /\ caps) => v.rule = "caps"
        /\ (~denied /\ ~caps /\ punct) => v.rule = "punctuation"
        /\ v.clean <=> (~denied /\ ~caps /\ ~punct)
        /\ v.clean <=> v.rule = ""
        /\ text = <<"s", "p", "a", "m", "!", "!", "!">> =>
             v.word = <<"s", "p", "a", "m">>
        /\ text = <<"f", "r", "a", "u", "d", " ", "s", "c", "a", "m">> =>
             v.word = <<"s", "c", "a", "m">>
        /\ text = Rep("A", 50) => v.clean
        /\ text = Rep("A", 49) \o Rep("a", 21) => v.clean
        /\ text = Rep("A", 51) \o <<"!", "!", "!">> => v.rule = "caps"
        /\ text = <<"w", "o", "w", "!", "?", "!">> => v.clean

C12_Witness ==
  /\ mVerdict # Nil
  /\ mVerdict.text = <<"s", "p", "a", "m", "!", "!", "!">>
  /\ mVerdict.result.rule = "banned"
  /\ PunctRun(mVerdict.text)

\* what takes the place of a post that is not clean
Replacement ==
  [post_text |-> ModerationNotice,
   hashtags |-> << <<"#", "ContentModerated">> >>,
   cta |-> <<"ModerationCta">>]

\* C13: apply_content_moderation gives a list of the same length; at each
\* place the post given, unchanged, when its text is clean, and otherwise a
\* copy with the moderation notice, the single tag "#ContentModerated" and the
\* retry prompt; the posts given are not changed by the call.
C13_SameLengthSamePlaces ==
  /\ [](mOut.called =>
          /\ Len(mOut.posts) = Len(mIn)
          /\ \A i \in 1..Len(mIn) :
               mOut.posts[i] = IF ModerateContent(mIn[i].post_text).clean
                               THEN mIn[i] ELSE Replacement)
  /\ [][mIn' = mIn]_vars

C13_Witness ==
  /\ mOut.called
  /\ Len(mIn) = 2
  /\ mOut.posts[1] = mIn[1]
  /\ mOut.posts[2] # mIn[2]
  /\ mOut.posts[2] = Replacement

\* C14: moderation is idempotent: apply_content_moderation on its own result
\* gives that result again, and the notice put in the place of a text is itself
\* judged clean.
C14_Idempotent ==
  mAgain.called =>
    /\ mAgain.posts = mOut.posts
    /\ \A i \in 1..Len(mOut.posts) :
         ModerateContent(mOut.posts[i].post_text).clean
    /\ ModerateContent(ModerationNotice).clean

C14_Witness ==
  /\ mAgain.called
  /\ \E i \in 1..Len(mIn) :
       /\ ~ModerateContent(mIn[i].post_text).clean
       /\ mAgain.posts[i].post_text = ModerationNotice

\* a is t ticks rounded to thousandths of a second: within half a thousandth
Nearest(a, ticks, den) ==
  /\ 2 * (10 * den * a - ticks) <= 10 * den
  /\ 2 * (ticks - 10 * den * a) <= 10 * den

\* C15 as stated: the snapshot of get_metrics has avg_latency_per_call equal to
\* total_latency / call_count when call_count > 0, and 0 when call_count = 0.
C15_AvgIsTheQuotient ==
  cl # Nil =>
    LET m == GetMetrics(cl)
    IN  /\ cl.call_count > 0 =>
             10 * cl.call_count * m.avg_latency_per_call = cl.total_latency
        /\ cl.call_count = 0 => m.avg_latency_per_call = 0

\* C15, amended: the snapshot of get_metrics has avg_latency_per_call equal to
\* total_latency / call_count rounded to three decimals when call_count > 0,
\* and 0 when call_count = 0; it reports the two counts as they are; and taking
\* the snapshot changes none of the counters.
C15_AvgIsTheRoundedQuotient ==
  /\ [](cl # Nil =>
          LET m == GetMetrics(cl)
          IN  /\ cl.call_count > 0 =>
                   Nearest(m.avg_latency_per_call, cl.total_latency, cl.call_count)
              /\ cl.call_count = 0 => m.avg_latency_per_call = 0
              /\ Nearest(m.total_latency, cl.total_latency, 1)
              /\ m.call_count = cl.call_count
              /\ m.total_tokens = cl.total_tokens)
  /\ [][clMetrics' # clMetrics => (cl' = cl /\ clMetrics' = GetMetrics(cl))]_vars

C15_Witness ==
  /\ cl # Nil
  /\ clMetrics # Nil
  /\ clMetrics = GetMetrics(cl)
  /\ cl.call_count = 3
  /\ cl.total_latency = 5
  /\ clMetrics.avg_latency_per_call = 0
  /\ clMetrics.total_latency = 1


\* the calls the provider answered for request r, and the counters they add up
\* to: every answer of PipelineOutcomes uses one token and takes one tick
OwnCalls(r) == Cardinality({i \in 1..Len(answered) : answered[i] = r})
OwnCounters(r) ==
  [total_tokens |-> OwnCalls(r), total_latency |-> OwnCalls(r),
   call_count |-> OwnCalls(r)]

\* the metrics a request reported: in its response, or in its "metrics" and
\* "complete" events
ReportedMetrics(r) ==
  (IF resp[r] # Nil /\ resp[r].status = 200 THEN {resp[r].metrics} ELSE {})
  \cup {events[r][i].data : i \in {j \in 1..Len(events[r]) : EventTag(events[r][j]) = "metrics"}}
  \cup {events[r][i].metrics : i \in {j \in 1..Len(events[r]) : EventTag(events[r][j]) = "complete"}}

\* the provider answered a call of one request between two calls of the other
Interleaved ==
  \E i, j, k \in 1..Len(answered) :
    i < j /\ j < k /\ answered[i] = answered[k] /\ answered[j] # answered[i]

\* C16: with two requests in process at the same time, the metrics a request
\* reports count its own provider calls only, however the calls interleave.
C16_MetricsAreItsOwn ==
  \A r \in Reqs : \A m \in ReportedMetrics(r) : m = GetMetrics(OwnCounters(r))

C16_Witness ==
  /\ Interleaved
  /\ \A r \in Reqs : ReportedMetrics(r) # {} /\ OwnCalls(r) >= 3


\* C17: POST /feedback answers success=true whether the append succeeds or
\* fails; a successful append adds exactly the one entry at the end of the log,
\* and a failed append leaves the log as it was.
C17_FeedbackNeverFailsCaller ==
  fbLast # Nil =>
    /\ fbLast.response.success
    /\ fbLast.outcome = "written" =>
         feedback_log = Append(fbLast.before, Line(FeedbackEntry(fbLast.request)))
    /\ fbLast.outcome # "written" => feedback_log = fbLast.before

\* C17, what holds: the answer is success=true, a successful append adds the
\* one line at the end, and no append changes or removes what was in the log
C17_AnswerAndAppendOnly ==
  fbLast # Nil =>
    /\ fbLast.response.success /\ fbLast.response.status = 200
    /\ fbLast.outcome = "written" =>
         feedback_log = Append(fbLast.before, Line(FeedbackEntry(fbLast.request)))
    /\ fbLast.outcome = "open_raises" => feedback_log = fbLast.before
    /\ SubSeq(feedback_log, 1, Len(fbLast.before)) = fbLast.before

C17_TornLine ==
  /\ fbLast # Nil /\ fbLast.outcome = "write_raises"
  /\ fbLast.response.success
  /\ feedback_log # fbLast.before

\* C18: GET /health reports api_configured = true iff a client constructed
\* with the key resolved at startup runs live (not in mock mode).
C18_ConfiguredIffLive ==
  health # Nil => (health.api_configured <=> ~UseMock(config))

\* C18, what holds: api_configured is true iff the key is not empty
C18_ConfiguredIffKeyNotEmpty ==
  health # Nil => (health.api_configured <=> config # "")

C18_PlaceholderConfigured ==
  health # Nil /\ health.api_configured /\ UseMock(config)


\* C19: LLMClient(provider, api_key) fails at construction iff the provider,
\* compared without regard to case, is not one of groq and gemini, whatever
\* the key; after a failed construction there is no client and no call was
\* made, and every client that exists has a recognized provider.
C19_UnknownProviderFailsAtConstruction ==
  clAsk # Nil =>
    /\ cl = Nil <=> Lower(clAsk.provider) \notin {GROQ, GEMINI}
    /\ cl = Nil => clDone = 0 /\ clNet = 0 /\ clLast = Nil /\ clMetrics = Nil
    /\ cl # Nil => cl.provider \in {GROQ, GEMINI}

C19_Witness ==
  /\ clAsk # Nil /\ cl = Nil
  /\ clAsk.provider = <<"o", "p", "e", "n", "a", "i">>
  /\ clAsk.api_key = "gsk_live"

C19_WitnessAccepted ==
  /\ clAsk # Nil /\ cl # Nil
  /\ clAsk.provider = <<"G", "r", "o", "q">> /\ cl.provider = GROQ
  /\ clAsk.api_key = ""


\* C20: whenever a handler has called the orchestrator, the topic it passed is
\* the request's topic without the whitespace around it and is not empty, and
\* the post_count it passed is in 1..10, for every request body (post_count
\* null or absent and post_count 0 included).
C20_OrchestratorArgsInRange ==
  \A r \in Reqs :
    run[r] # Nil =>
      /\ run[r].topic = Strip(req[r].topic)
      /\ run[r].topic # <<>>
      /\ ~IsSpace(run[r].topic[1]) /\ ~IsSpace(run[r].topic[Len(run[r].topic)])
      /\ run[r].post_count \in 1..10

C20_Witness ==
  \E r \in Reqs :
    /\ run[r] # Nil
    /\ req[r].post_count = Count(0) /\ run[r].post_count = 3
    /\ req[r].topic # run[r].topic


\* the brainstorm stage of request r is over and the angles are cut
AfterBrainstorm(r) ==
  /\ run[r] # Nil
  /\ pc[r] \in {"draft", "draft_wait", "refine", "refine_wait", "assemble",
                "complete"}

\* C21: after the brainstorm stage the angle list has exactly post_count
\* entries, whatever the brainstorm response lists.
C21_ExactlyPostCountAngles ==
  \A r \in Reqs :
    AfterBrainstorm(r) => Len(run[r].angles) = run[r].post_count

\* C21, what holds: at least one angle, never more than post_count
C21_AtMostPostCountAngles ==
  \A r \in Reqs :
    AfterBrainstorm(r) => Len(run[r].angles) \in 1..run[r].post_count


InFlight(r) == {i \in 1..Len(tasks[r]) : tasks[r][i].state = "inflight"}

\* C22: a stage is left, to the next stage or by failing the run, only when
\* every one of its calls has completed: a call is in flight only while the
\* orchestrator waits in its stage, so none is in flight when a refine call is
\* made or when the failure of the run is reported.
C22_StageLeftWhenAllComplete ==
  \A r \in Reqs :
    InFlight(r) # {} => pc[r] \in {"brainstorm_wait", "draft_wait", "refine_wait"}

\* C22, what holds: the calls in flight are those of one stage, so no refine
\* call is made while a draft call is in flight, and a stage that does not
\* fail is left with every call completed
C22_OneStageInFlight ==
  \A r \in Reqs :
    /\ \A i, j \in InFlight(r) : tasks[r][i].prompt.kind = tasks[r][j].prompt.kind
    /\ pc[r] \in {"draft", "refine", "assemble", "complete"} => InFlight(r) = {}


\* a draft or refine call of request r has failed
SubCallFailed(r) ==
  \E i \in 1..Len(tasks[r]) :
    /\ tasks[r][i].state = "failed"
    /\ tasks[r][i].prompt.kind \in {"draft", "refine"}

\* the provider requests of a run up to the stage its calls are of: the
\* brainstorm call, one call for each angle, one for each drafted post
RequestsUpTo(r) ==
  1 + Len(run[r].angles)
    + (IF tasks[r][1].prompt.kind = "refine" THEN Len(run[r].drafted_posts) ELSE 0)

\* C23: when a draft or refine call fails the run fails with no partial
\* result: no posts are returned, no "post", "metrics" or "complete" event is
\* yielded, no call of a later stage is made and no call is made twice.
C23_NoPartialResult ==
  \A r \in Reqs :
    SubCallFailed(r) =>
      /\ resp[r] # Nil => resp[r] = [status |-> 502]
      /\ \A i \in 1..Len(events[r]) :
           EventTag(events[r][i]) \notin {"post", "metrics", "complete"}
      /\ pc[r] \in {"draft_wait", "refine_wait", "except", "done"}
      /\ \A i, j \in 1..Len(tasks[r]) :
           tasks[r][i].prompt.kind = tasks[r][j].prompt.kind
      /\ net[r].provider = RequestsUpTo(r)
      /\ pc[r] = "done" =>
           /\ raised[r] = "LLMProviderError"
           /\ IF IsStream(r)
              THEN EventTag(events[r][Len(events[r])]) = "error"
              ELSE resp[r] # Nil

C23_Witness ==
  \E r \in Reqs :
    /\ SubCallFailed(r) /\ pc[r] = "done" /\ IsStream(r)
    /\ Len(tasks[r]) = 2
    /\ tasks[r][1].state = "done" /\ tasks[r][2].prompt.kind = "refine"


\* the run of request r is over and every provider call it made returned a text
OverWithTexts(r) ==
  /\ pc[r] = "done" /\ run[r] # Nil
  /\ ~AnyFailed(tasks[r]) /\ raised[r] # "LLMProviderError"

\* C24: a run in which every provider call returns a text does not fail,
\* whatever the texts are: the aggregate form returns a result and the
\* streaming form ends in "complete".
C24_TextNeverFailsRun ==
  \A r \in Reqs :
    OverWithTexts(r) =>
      IF IsStream(r)
      THEN EventTag(events[r][Len(events[r])]) = "complete"
      ELSE resp[r].status = 200

\* C24, what holds: such a run fails only with the AttributeError of the
\* assembly loop, raised for a cta or a hashtag that is no string
C24_FailsOnlyInAssembly ==
  \A r \in Reqs :
    (OverWithTexts(r) /\ raised[r] # "AttributeError") =>
      IF IsStream(r)
      THEN EventTag(events[r][Len(events[r])]) = "complete"
      ELSE resp[r].status = 200


\* the research stage of request r is over
AfterResearch(r) ==
  run[r] # Nil /\ pc[r] \notin {"construct", "research"} /\ client[r] # Nil

\* the context is one of the texts the prompt embeds
HasContext(prompt, context) ==
  \E i \in 1..Len(prompt.parts) : prompt.parts[i] = context

\* what holds in every state of a run, as to the research stage
ResearchOk(r) ==
  /\ net[r].search = IF run[r].use_web_search /\ AfterResearch(r) THEN 1 ELSE 0
  /\ ~run[r].use_web_search => run[r].context = <<>>
  /\ raised[r] \in {None, "LLMProviderError", "AttributeError"}
  /\ \A i \in 1..Len(tasks[r]) :
       LET prompt == tasks[r][i].prompt
       IN  IF run[r].context = <<>> \/ prompt.kind = "refine"
           THEN Len(prompt.parts) = 1
           ELSE Len(prompt.parts) = 2 /\ HasContext(prompt, run[r].context)
  /\ (resp[r] # Nil /\ resp[r].status = 200) =>
       /\ resp[r].used_web_search = run[r].use_web_search
       /\ resp[r].context_found = (run[r].context # <<>>)
  /\ \A i \in 1..Len(events[r]) :
       EventTag(events[r][i]) = "complete" =>
         /\ events[r][i].used_web_search = run[r].use_web_search
         /\ events[r][i].context_found = (run[r].context # <<>>)

\* C25: the research stage never halts the run.  With use_web_search set, one
\* search is made and whatever it does (results, none, library missing,
\* exception) the run goes on to the brainstorm stage; an empty digest gives
\* prompts without context and context_found = false; with use_web_search not
\* set no search is made.
C25_ResearchNeverHalts ==
  /\ [](\A r \in Reqs : run[r] # Nil => ResearchOk(r))
  /\ [][\A r \in Reqs :
          (pc[r] = "research" /\ pc'[r] # "research") => pc'[r] = "brainstorm"]_vars

C25_Witness ==
  \E r \in Reqs :
    /\ resp[r] # Nil /\ resp[r].status = 200
    /\ resp[r].used_web_search /\ ~resp[r].context_found
    /\ net[r].search = 1 /\ net[r].provider > 0


\* both runs are over, the aggregate run of r1 and the streaming run of r2
BothOver == Quiet("r1") /\ Quiet("r2")

LastEvent(r) == events[r][Len(events[r])]

\* C26: for the same request and the same responses of the search and of the
\* provider, the two forms make the same provider calls, the streaming form
\* ends in "error" exactly when the aggregate form raises, and otherwise its
\* "complete" event carries the posts, the metrics, used_web_search and
\* context_found of the aggregate result.
C26_FormsAgree ==
  BothOver =>
    /\ net["r2"] = net["r1"]
    /\ tasks["r2"] = tasks["r1"]
    /\ run["r2"].angles = run["r1"].angles
    /\ run["r2"].drafted_posts = run["r1"].drafted_posts
    /\ raised["r2"] = raised["r1"]
    /\ EventTag(LastEvent("r2")) = "error" <=> resp["r1"].status # 200
    /\ resp["r1"].status = 200 =>
         /\ EventTag(LastEvent("r2")) = "complete"
         /\ LastEvent("r2").posts = resp["r1"].posts
         /\ LastEvent("r2").metrics = resp["r1"].metrics
         /\ LastEvent("r2").used_web_search = resp["r1"].used_web_search
         /\ LastEvent("r2").context_found = resp["r1"].context_found

C26_Witness ==
  /\ BothOver /\ resp["r1"].status = 200
  /\ Len(resp["r1"].posts) = 2
  /\ resp["r1"].posts[1].post_text = ModerationNotice
  /\ resp["r1"].posts[2].post_text # ModerationNotice
  /\ resp["r1"].metrics.call_count = 5
  /\ resp["r1"].context_found

C26_WitnessError ==
  /\ BothOver /\ raised["r1"] = "AttributeError"
  /\ \E i \in 1..Len(events["r2"]) : EventTag(events["r2"][i]) = "post"


\* the calls of the stage are made in the order of the angles and of the
\* drafts, and the posts assembled so far pair the draft and the refinement
\* of the same place
PairedByIndex(r) ==
  /\ pc[r] = "draft_wait" =>
       /\ Len(tasks[r]) = Len(run[r].angles)
       /\ \A i \in 1..Len(tasks[r]) :
            tasks[r][i].prompt = DraftPrompt(run[r], run[r].angles[i])
  /\ pc[r] = "refine_wait" =>
       /\ Len(tasks[r]) = Len(run[r].drafted_posts)
       /\ \A i \in 1..Len(tasks[r]) :
            tasks[r][i].prompt.parts = <<run[r].drafted_posts[i]>>
  /\ Len(run[r].drafted_posts) \in {0, Len(run[r].angles)}
  /\ Len(run[r].refinement_responses) \in {0, Len(run[r].drafted_posts)}
  /\ \A i \in 1..Len(run[r].final_posts) :
       LET fp == FinalPost(run[r].drafted_posts[i],
                           run[r].refinement_responses[i], run[r].topic).post
       IN  run[r].final_posts[i] =
             IF IsStream(r) THEN ApplyContentModeration(<<fp>>)[1] ELSE fp

\* the step that leaves a gather takes the result at place i from call i
GatherKeepsPlaces(r) ==
  /\ (pc[r] = "draft_wait" /\ pc'[r] = "refine") =>
       /\ Len(run'[r].drafted_posts) = Len(tasks[r])
       /\ \A i \in 1..Len(tasks[r]) :
            run'[r].drafted_posts[i] = tasks[r][i].result.text
  /\ (pc[r] = "refine_wait" /\ pc'[r] = "assemble") =>
       /\ Len(run'[r].refinement_responses) = Len(tasks[r])
       /\ \A i \in 1..Len(tasks[r]) :
            run'[r].refinement_responses[i] = tasks[r][i].result.text

\* C27: in whatever order the calls of a stage complete, the final post at
\* index i is built from the draft of the call made for angle i and from the
\* refinement of the call made for that draft.
C27_CompletionOrderNeverPermutes ==
  /\ [](\A r \in Reqs : run[r] # Nil => PairedByIndex(r))
  /\ [][\A r \in Reqs : GatherKeepsPlaces(r)]_vars

\* the drafts differ, and the refine call of the second draft has returned
\* while the refine call of the first is in flight
C27_Witness ==
  \E r \in Reqs :
    /\ pc[r] = "refine_wait" /\ Len(tasks[r]) = 2
    /\ run[r].drafted_posts[1] # run[r].drafted_posts[2]
    /\ tasks[r][1].state = "inflight" /\ tasks[r][2].state = "done"


\* the run of request r uses a client in live mode
LiveRun(r) == run[r] # Nil /\ client[r] # Nil /\ ~client[r].use_mock

\* the provider calls a live run has made when it stands at pc[r], k being the
\* number of its angles
CallsMadeAt(r) ==
  LET k == Len(run[r].angles)
  IN  CASE pc[r] \in {"construct", "research", "brainstorm"} -> {0}
        [] pc[r] = "brainstorm_wait" -> {1}
        [] pc[r] = "draft" -> {1}
        [] pc[r] = "draft_wait" -> {1 + k}
        [] pc[r] = "refine" -> {1 + k}
        [] pc[r] \in {"refine_wait", "assemble", "complete"} -> {1 + 2 * k}
        [] OTHER -> {1, 1 + k, 1 + 2 * k}

\* C28: a live run in which every call succeeds makes exactly 1 + 2k provider
\* calls, k being the number of angles: the brainstorm call, then the k draft
\* calls, then the k refine calls; its metrics report call_count = 1 + 2k in
\* whatever order the calls complete, and are taken when no call is in flight.
C28_OnePlusTwoKCalls ==
  \A r \in Reqs :
    LiveRun(r) =>
      /\ net[r].provider \in CallsMadeAt(r)
      /\ \A i, j \in InFlight(r) : tasks[r][i].prompt.kind = tasks[r][j].prompt.kind
      /\ ReportedMetrics(r) # {} =>
           /\ InFlight(r) = {}
           /\ net[r].provider = 1 + 2 * Len(run[r].angles)
           /\ client[r].call_count = 1 + 2 * Len(run[r].angles)
           /\ \A m \in ReportedMetrics(r) :
                m.call_count = 1 + 2 * Len(run[r].angles)

C28_Witness ==
  \E r \in Reqs :
    /\ LiveRun(r) /\ Len(run[r].angles) = 3
    /\ \E m \in ReportedMetrics(r) : m.call_count = 7


\* how many of the three replacement fields a post carries
ReplacementFields(post) ==
  Cardinality({f \in {"post_text", "hashtags", "cta"} : post[f] = Replacement[f]})

\* C29: moderation decides on post_text alone: a post with a clean text is
\* passed through with its hashtags and cta whatever they hold, a post with
\* a text that is not clean has its hashtags and cta replaced; so every post
\* of a result carries all three replacement fields or none of them.
C29_AllThreeOrNone ==
  mOut.called =>
    \A i \in 1..Len(mIn) :
      /\ ModerateContent(mIn[i].post_text).clean => mOut.posts[i] = mIn[i]
      /\ ~ModerateContent(mIn[i].post_text).clean =>
           /\ mOut.posts[i].hashtags = Replacement.hashtags
           /\ mOut.posts[i].cta = Replacement.cta
      /\ ReplacementFields(mOut.posts[i]) \in {0, 3}

\* C29 as it holds: the decision is on post_text alone, a post that was
\* replaced carries all three replacement fields, and a post that was passed
\* through carries the replacement fields the post given carried
C29_DecidesOnTextAlone ==
  mOut.called =>
    \A i \in 1..Len(mIn) :
      /\ ModerateContent(mIn[i].post_text).clean => mOut.posts[i] = mIn[i]
      /\ ~ModerateContent(mIn[i].post_text).clean =>
           ReplacementFields(mOut.posts[i]) = 3
      /\ ReplacementFields(mOut.posts[i]) \in {3, ReplacementFields(mIn[i])}

C29_Witness ==
  /\ mOut.called /\ Len(mIn) = 2
  /\ ~ModerateContent(mIn[1].cta).clean /\ mOut.posts[1] = mIn[1]
  /\ ModerateContent(mIn[2].cta).clean /\ mOut.posts[2] = Replacement
  /\ mIn[2] # Replacement


\* C30: in the streaming form no "error" event comes after a "post" event of
\* the same run: a run that has yielded a post goes on to "complete".
C30_NoErrorAfterPost ==
  \A r \in Reqs :
    \A i, j \in 1..Len(events[r]) :
      (i < j /\ EventTag(events[r][i]) = "post") =>
        EventTag(events[r][j]) # "error"

\* C30, what holds: an "error" event after a "post" event is the
\* AttributeError of the assembly loop, never the failure of a provider call
C30_ErrorAfterPostIsOfAssembly ==
  \A r \in Reqs :
    \A i, j \in 1..Len(events[r]) :
      (i < j /\ EventTag(events[r][i]) = "post"
             /\ EventTag(events[r][j]) = "error") =>
        raised[r] = "AttributeError"

=============================================================================
